---- MODULE Spec2Model ----
(***************************************************************************)
(* Model of the UCP schema resolver (src/src/resolver.rs).                 *)
(*                                                                         *)
(* A JSON value is a record [t, s, b, kv]:                                 *)
(*   t  = "obj" | "arr" | "str" | "num" | "bool" | "null"                  *)
(*   s  = the text of a string / number, "" otherwise                      *)
(*   b  = the value of a boolean, FALSE otherwise                          *)
(*   kv = the entries, in insertion order, of an object (records [k, v])   *)
(*        or the elements of an array (records [k |-> "", v]).             *)
(* A path is the sequence of its segments ("/a/b" is <<"a", "b">>); a      *)
(* formatted message is the sequence of its fragments.                     *)
(***************************************************************************)
EXTENDS Integers, Sequences, FiniteSets, TLC

(* ---------------------------------------------------------------------- *)
(* JSON values (serde_json::Value with an insertion-ordered Map)           *)
(* ---------------------------------------------------------------------- *)
Str(x) == [t |-> "str", s |-> x, b |-> FALSE, kv |-> <<>>]
Num(x) == [t |-> "num", s |-> x, b |-> FALSE, kv |-> <<>>]
Bool(x) == [t |-> "bool", s |-> "", b |-> x, kv |-> <<>>]
Null == [t |-> "null", s |-> "", b |-> FALSE, kv |-> <<>>]
KV(key, val) == [k |-> key, v |-> val]
Obj(entries) == [t |-> "obj", s |-> "", b |-> FALSE, kv |-> entries]
Arr(items) ==
    [t |-> "arr", s |-> "", b |-> FALSE,
     kv |-> [i \in 1..Len(items) |-> KV("", items[i])]]

is_object(v) == v.t = "obj"
is_array(v) == v.t = "arr"
is_str(v) == v.t = "str"

\* Map::contains_key
contains_key(m, key) == \E i \in 1..Len(m.kv) : m.kv[i].k = key

KeyIndex(m, key) == CHOOSE i \in 1..Len(m.kv) : m.kv[i].k = key

\* Value::get(key) / Map::get(key): Some(v) only on an object holding the key
has(v, key) == is_object(v) /\ contains_key(v, key)
get(v, key) == v.kv[KeyIndex(v, key)].v

\* Map::insert on an insertion-ordered map: an existing key keeps its
\* position and takes the new value, a new key is appended.
insert(m, key, val) ==
    IF contains_key(m, key)
    THEN [m EXCEPT !.kv[KeyIndex(m, key)] = KV(key, val)]
    ELSE [m EXCEPT !.kv = Append(m.kv, KV(key, val))]

Keys(m) == [i \in 1..Len(m.kv) |-> m.kv[i].k]
Items(a) == [i \in 1..Len(a.kv) |-> a.kv[i].v]
SeqContains(sq, x) == \E i \in 1..Len(sq) : sq[i] = x

\* Vec::retain(|r| r != x)
RECURSIVE retain_ne(_, _)
retain_ne(sq, x) ==
    IF sq = <<>> THEN <<>>
    ELSE IF Head(sq) = x THEN retain_ne(Tail(sq), x)
    ELSE <<Head(sq)>> \o retain_ne(Tail(sq), x)

\* arr.iter().filter_map(|v| v.as_str().map(String::from)).collect(),
\* or the default (empty) when the key is absent or not an array
RECURSIVE str_items(_)
str_items(items) ==
    IF items = <<>> THEN <<>>
    ELSE IF is_str(Head(items).v)
         THEN <<Head(items).v.s>> \o str_items(Tail(items))
         ELSE str_items(Tail(items))

required_names(v) ==
    IF has(v, "required") /\ is_array(get(v, "required"))
    THEN str_items(get(v, "required").kv)
    ELSE <<>>

StrArr(names) == Arr([i \in 1..Len(names) |-> Str(names[i])])

(* ---------------------------------------------------------------------- *)
(* Types and errors (crate::types, crate::error)                           *)
(* ---------------------------------------------------------------------- *)
UCP_ANNOTATIONS == {"ucp_request", "ucp_response"}

annotation_key(direction) ==
    IF direction = "Request" THEN "ucp_request" ELSE "ucp_response"

Visibilities == {"include", "required", "optional", "omit"}

\* Visibility::parse: Some(v) exactly for the four visibility words
visibility_parses(x) == x \in Visibilities

is_valid_schema_transition(from, to) ==
    visibility_parses(from) /\ visibility_parses(to) /\ from # to

json_type_name(v) ==
    CASE v.t = "null" -> "null"
      [] v.t = "bool" -> "boolean"
      [] v.t = "num" -> "number"
      [] v.t = "str" -> "string"
      [] v.t = "arr" -> "array"
      [] OTHER -> "object"

NoErr ==
    [kind |-> "", path |-> <<>>, actual |-> "", value |-> "", message |-> <<>>,
     base_type |-> "", ext_type |-> "", field |-> "", base_status |-> "",
     attempted |-> ""]

InvalidAnnotationType(p, a) ==
    [NoErr EXCEPT !.kind = "InvalidAnnotationType", !.path = p, !.actual = a]
UnknownVisibility(p, x) ==
    [NoErr EXCEPT !.kind = "UnknownVisibility", !.path = p, !.value = x]
InvalidSchemaTransition(p, m) ==
    [NoErr EXCEPT !.kind = "InvalidSchemaTransition", !.path = p, !.message = m]
TypeConflict(p, bt, et) ==
    [NoErr EXCEPT !.kind = "TypeConflict", !.path = p, !.base_type = bt,
                  !.ext_type = et]
MonotonicityViolation(p, f, a) ==
    [NoErr EXCEPT !.kind = "MonotonicityViolation", !.path = p, !.field = f,
                  !.base_status = "required", !.attempted = a]

\* Result<Value, ResolveError>
Ok(v) == [ok |-> TRUE, val |-> v, err |-> NoErr]
Err(e) == [ok |-> FALSE, val |-> Null, err |-> e]

\* Option<SchemaTransitionInfo>
NoTransition == [some |-> FALSE, from |-> "", to |-> "", description |-> ""]
SomeTransition(f, t, d) ==
    [some |-> TRUE, from |-> f, to |-> t, description |-> d]

\* Result<(Visibility, Option<SchemaTransitionInfo>), ResolveError>
VisOk(v, tr) == [ok |-> TRUE, vis |-> v, transition |-> tr, err |-> NoErr]
VisErr(e) == [ok |-> FALSE, vis |-> "", transition |-> NoTransition, err |-> e]

(* ---------------------------------------------------------------------- *)
(* get_visibility                                                          *)
(* ---------------------------------------------------------------------- *)
parse_visibility_string(x, path) ==
    IF visibility_parses(x) THEN VisOk(x, NoTransition)
    ELSE VisErr(UnknownVisibility(path, x))

\* t.get(name).and_then(|v| v.as_str()).unwrap_or("")
str_field(tv, name) ==
    IF has(tv, name) /\ is_str(get(tv, name)) THEN get(tv, name).s ELSE ""

\* obj.get("transition").and_then(|v| v.as_object()).unwrap_or(obj)
transition_object(obj) ==
    IF has(obj, "transition") /\ is_object(get(obj, "transition"))
    THEN get(obj, "transition") ELSE obj

\* parse_visibility_string(from, path)?, then the transition info.
with_transition(parsed, from, to, description) ==
    IF ~parsed.ok THEN parsed
    ELSE VisOk(parsed.vis, SomeTransition(from, to, description))

\* checked_transition without the test for a non-empty description.
checked_transition_any_description(from, to, description, path) ==
    IF ~is_valid_schema_transition(from, to)
    THEN VisErr(InvalidSchemaTransition(path,
             <<"\"from\" (", from, ") and \"to\" (", to,
               ") must be distinct visibility values">>))
    ELSE with_transition(parse_visibility_string(from, path), from, to,
                         description)

\* The two checks of parse_transition_value on the three fields read.
checked_transition(from, to, description, path) ==
    IF description = ""
    THEN VisErr(InvalidSchemaTransition(path,
             <<"missing required field \"description\"">>))
    ELSE IF ~is_valid_schema_transition(from, to)
    THEN VisErr(InvalidSchemaTransition(path,
             <<"\"from\" (", from, ") and \"to\" (", to,
               ") must be distinct visibility values">>))
    ELSE with_transition(parse_visibility_string(from, path), from, to,
                         description)

parse_transition_value(obj, path) ==
    checked_transition(str_field(transition_object(obj), "from"),
                       str_field(transition_object(obj), "to"),
                       str_field(transition_object(obj), "description"), path)

\* operation_entry taking an entry that is neither a string nor a mapping as
\* Include.
operation_entry_lenient(entry, operation, path) ==
    IF is_str(entry) THEN parse_visibility_string(entry.s, path)
    ELSE IF is_object(entry)
    THEN parse_transition_value(entry, Append(path, operation))
    ELSE VisOk("include", NoTransition)

\* match map.get(operation) { Some(String) | Some(Object) | Some(other) }
operation_entry(entry, operation, path) ==
    IF is_str(entry) THEN parse_visibility_string(entry.s, path)
    ELSE IF is_object(entry)
    THEN parse_transition_value(entry, Append(path, operation))
    ELSE VisErr(InvalidAnnotationType(Append(path, operation),
                                      json_type_name(entry)))

\* get_visibility_from_annotation taking every annotation or operation entry
\* that is neither a string nor a mapping as Include.
get_visibility_from_annotation_lenient(annotation, operation, path) ==
    IF is_str(annotation) THEN parse_visibility_string(annotation.s, path)
    ELSE IF is_object(annotation) THEN
        IF contains_key(annotation, operation)
        THEN operation_entry_lenient(get(annotation, operation), operation, path)
        ELSE IF has(annotation, "transition")
                /\ is_object(get(annotation, "transition"))
        THEN parse_transition_value(get(annotation, "transition"), path)
        ELSE VisOk("include", NoTransition)
    ELSE VisOk("include", NoTransition)

\* get_visibility_from_annotation looking at the `transition` key before the
\* entry of the operation.
get_visibility_from_annotation_transition_first(annotation, operation, path) ==
    IF is_str(annotation) THEN parse_visibility_string(annotation.s, path)
    ELSE IF is_object(annotation) THEN
        IF has(annotation, "transition")
           /\ is_object(get(annotation, "transition"))
        THEN parse_transition_value(get(annotation, "transition"), path)
        ELSE IF contains_key(annotation, operation)
        THEN operation_entry(get(annotation, operation), operation, path)
        ELSE VisOk("include", NoTransition)
    ELSE VisErr(InvalidAnnotationType(path, json_type_name(annotation)))

get_visibility_from_annotation(annotation, operation, path) ==
    IF is_str(annotation) THEN parse_visibility_string(annotation.s, path)
    ELSE IF is_object(annotation) THEN
        IF contains_key(annotation, operation)
        THEN operation_entry(get(annotation, operation), operation, path)
        ELSE IF has(annotation, "transition")
                /\ is_object(get(annotation, "transition"))
        THEN parse_transition_value(get(annotation, "transition"), path)
        ELSE VisOk("include", NoTransition)
    ELSE VisErr(InvalidAnnotationType(path, json_type_name(annotation)))

\* get_visibility falling back to the other direction's annotation.
get_visibility_either_key(prop, direction, operation, path) ==
    LET key == annotation_key(direction)
        other == CHOOSE k \in UCP_ANNOTATIONS : k # key
    IN  IF has(prop, key)
        THEN get_visibility_from_annotation(get(prop, key), operation, path)
        ELSE IF has(prop, other)
        THEN get_visibility_from_annotation(get(prop, other), operation, path)
        ELSE VisOk("include", NoTransition)

get_visibility(prop, direction, operation, path) ==
    LET key == annotation_key(direction)
    IN  IF ~has(prop, key) THEN VisOk("include", NoTransition)
        ELSE get_visibility_from_annotation(get(prop, key), operation, path)

(* ---------------------------------------------------------------------- *)
(* strip_annotations, apply_transition_metadata                            *)
(* ---------------------------------------------------------------------- *)
RECURSIVE strip_annotations_recursive(_)
RECURSIVE strip_entries(_, _)
strip_entries(kv, is_map) ==
    IF kv = <<>> THEN <<>>
    ELSE IF is_map /\ Head(kv).k \in UCP_ANNOTATIONS
         THEN strip_entries(Tail(kv), is_map)
         ELSE <<KV(Head(kv).k, strip_annotations_recursive(Head(kv).v))>>
              \o strip_entries(Tail(kv), is_map)

strip_annotations_recursive(value) ==
    IF is_object(value) THEN [value EXCEPT !.kv = strip_entries(value.kv, TRUE)]
    ELSE IF is_array(value)
    THEN [value EXCEPT !.kv = strip_entries(value.kv, FALSE)]
    ELSE value

strip_annotations(schema) == strip_annotations_recursive(schema)

\* apply_transition_metadata with `deprecated` set for every transition.
apply_transition_metadata_always_deprecated(value, transition) ==
    IF is_object(value) /\ transition.some
    THEN insert(insert(value, "x-ucp-schema-transition",
                       Obj(<<KV("from", Str(transition.from)),
                             KV("to", Str(transition.to)),
                             KV("description", Str(transition.description))>>)),
                "deprecated", Bool(TRUE))
    ELSE value

apply_transition_metadata(value, transition) ==
    IF is_object(value) /\ transition.some
    THEN LET with_info ==
                 insert(value, "x-ucp-schema-transition",
                        Obj(<<KV("from", Str(transition.from)),
                              KV("to", Str(transition.to)),
                              KV("description", Str(transition.description))>>))
         IN  IF transition.to = "omit"
             THEN insert(with_info, "deprecated", Bool(TRUE))
             ELSE with_info
    ELSE value

(* ---------------------------------------------------------------------- *)
(* allOf: collect, validate types, inject                                  *)
(* ---------------------------------------------------------------------- *)
\* branch.as_object().and_then(|o| o.get("properties")).and_then(as_object)
has_props(branch) ==
    has(branch, "properties") /\ is_object(get(branch, "properties"))

\* merged.insert(name, ann) without replacing an annotation already collected.
collect_one_first_wins(merged, name, prop, ann_key) ==
    IF has(prop, ann_key) /\ ~contains_key(merged, name)
    THEN insert(merged, name, get(prop, ann_key))
    ELSE merged

\* One property of one branch: its annotation, if any, replaces the one
\* collected so far for the name.
collect_one(merged, name, prop, ann_key) ==
    IF has(prop, ann_key) THEN insert(merged, name, get(prop, ann_key))
    ELSE merged

RECURSIVE collect_props(_, _, _)
collect_props(pkv, ann_key, merged) ==
    IF pkv = <<>> THEN merged
    ELSE collect_props(Tail(pkv), ann_key,
             collect_one(merged, Head(pkv).k, Head(pkv).v, ann_key))

RECURSIVE collect_branches(_, _, _)
collect_branches(branches, ann_key, merged) ==
    IF branches = <<>> THEN merged
    ELSE collect_branches(Tail(branches), ann_key,
             IF has_props(Head(branches))
             THEN collect_props(get(Head(branches), "properties").kv, ann_key,
                                merged)
             ELSE merged)

collect_allof_annotations(branches, ann_key) ==
    collect_branches(branches, ann_key, Obj(<<>>))

\* validate_props comparing an array-valued `type` as the type "array".
RECURSIVE validate_props_array_types(_, _, _)
validate_props_array_types(pkv, path, acc) ==
    IF pkv = <<>> \/ ~acc.ok THEN acc
    ELSE LET name == Head(pkv).k
             prop == Head(pkv).v
         IN  validate_props_array_types(Tail(pkv), path,
                 IF has(prop, "type")
                    /\ (is_str(get(prop, "type")) \/ is_array(get(prop, "type")))
                 THEN LET type_str == IF is_str(get(prop, "type"))
                                      THEN get(prop, "type").s ELSE "array"
                      IN  IF contains_key(acc.val, name)
                          THEN IF get(acc.val, name).s # type_str
                               THEN Err(TypeConflict(
                                        path \o <<"properties", name>>,
                                        get(acc.val, name).s, type_str))
                               ELSE acc
                          ELSE Ok(insert(acc.val, name, Str(type_str)))
                 ELSE acc)

\* The loop of validate_allof_types over one branch's properties; prop_types
\* is the HashMap name -> first string type seen (kept as an object of Str).
RECURSIVE validate_props(_, _, _)
validate_props(pkv, path, acc) ==
    IF pkv = <<>> \/ ~acc.ok THEN acc
    ELSE LET name == Head(pkv).k
             prop == Head(pkv).v
         IN  validate_props(Tail(pkv), path,
                 IF has(prop, "type") /\ is_str(get(prop, "type"))
                 THEN LET type_str == get(prop, "type").s
                      IN  IF contains_key(acc.val, name)
                          THEN IF get(acc.val, name).s # type_str
                               THEN Err(TypeConflict(
                                        path \o <<"properties", name>>,
                                        get(acc.val, name).s, type_str))
                               ELSE acc
                          ELSE Ok(insert(acc.val, name, Str(type_str)))
                 ELSE acc)

RECURSIVE validate_branches(_, _, _)
validate_branches(branches, path, acc) ==
    IF branches = <<>> \/ ~acc.ok THEN acc
    ELSE validate_branches(Tail(branches), path,
             IF has_props(Head(branches))
             THEN validate_props(get(Head(branches), "properties").kv, path, acc)
             ELSE acc)

validate_allof_types(branches, path) ==
    validate_branches(branches, path, Ok(Obj(<<>>)))

\* obj.insert(ann_key, ann) on the property `name` of the branch.
injected(props, name, ann_key, ann) ==
    Ok(insert(props, name, insert(get(props, name), ann_key, ann)))

\* The monotonicity check on the visibility the collected annotation has.
monotonic(checked, name, prop_path, otherwise) ==
    IF ~checked.ok THEN Err(checked.err)
    ELSE IF checked.vis \in {"omit", "optional"}
    THEN Err(MonotonicityViolation(prop_path, name, checked.vis))
    ELSE otherwise

\* inject_one without the monotonicity check.
inject_one_unchecked(name, ann, ann_key, operation, path, base_required, acc) ==
    IF ~contains_key(acc.val, name) THEN acc
    ELSE IF ~is_object(get(acc.val, name)) THEN acc
    ELSE IF contains_key(get(acc.val, name), ann_key) THEN acc
    ELSE injected(acc.val, name, ann_key, ann)

\* One collected annotation of the loop of inject_annotations; acc.val is the
\* branch's properties map being rewritten.
inject_one(name, ann, ann_key, operation, path, base_required, acc) ==
    IF ~contains_key(acc.val, name) THEN acc
    ELSE IF ~is_object(get(acc.val, name)) THEN acc
    ELSE IF contains_key(get(acc.val, name), ann_key) THEN acc
    ELSE IF ~SeqContains(base_required, name)
    THEN injected(acc.val, name, ann_key, ann)
    ELSE monotonic(get_visibility_from_annotation(ann, operation,
                       path \o <<"properties", name>>),
                   name, path \o <<"properties", name>>,
                   injected(acc.val, name, ann_key, ann))

RECURSIVE inject_loop(_, _, _, _, _, _)
inject_loop(akv, ann_key, operation, path, base_required, acc) ==
    IF akv = <<>> \/ ~acc.ok THEN acc
    ELSE inject_loop(Tail(akv), ann_key, operation, path, base_required,
             inject_one(Head(akv).k, Head(akv).v, ann_key, operation, path,
                        base_required, acc))

\* The branch with its rewritten properties, or the error of the loop.
with_properties(branch, r) ==
    IF r.ok THEN Ok(insert(branch, "properties", r.val)) ELSE r

inject_annotations(branch, annotations, ann_key, options, path) ==
    IF has_props(branch)
    THEN with_properties(branch,
             inject_loop(annotations.kv, ann_key, options.operation, path,
                         required_names(branch), Ok(get(branch, "properties"))))
    ELSE Ok(branch)

(* ---------------------------------------------------------------------- *)
(* resolve_value and the rules it dispatches to                            *)
(* ---------------------------------------------------------------------- *)
RECURSIVE resolve_value(_, _, _)

\* The state of the loop of resolve_properties: the properties kept so far
\* and the enclosing object's working `required` list.
PropsAcc(okay, props, req, e) ==
    [ok |-> okay, val |-> props, required |-> req, err |-> e]

\* strip_annotations and apply_transition_metadata on the resolved property.
finished_property(resolved, transition) ==
    IF ~resolved.ok THEN resolved
    ELSE Ok(apply_transition_metadata(strip_annotations(resolved.val),
                                      transition))

\* One property kept: recurse, strip, attach the transition metadata.
keep_property(prop_value, options, prop_path, transition) ==
    finished_property(resolve_value(prop_value, options, prop_path), transition)

\* The arms of `match visibility`: what each does to the kept properties and
\* to the working `required` list.
\* omit_property without the removal from `required`.
omit_property_keeps_required(prop_name, acc) == acc

omit_property(prop_name, acc) ==
    PropsAcc(TRUE, acc.val, retain_ne(acc.required, prop_name), NoErr)

\* required_property without the `contains` test before the push.
required_property_always_pushes(prop_name, kept, acc) ==
    PropsAcc(TRUE, insert(acc.val, prop_name, kept),
             Append(acc.required, prop_name), NoErr)

required_property(prop_name, kept, acc) ==
    PropsAcc(TRUE, insert(acc.val, prop_name, kept),
             IF SeqContains(acc.required, prop_name) THEN acc.required
             ELSE Append(acc.required, prop_name), NoErr)

optional_property(prop_name, kept, acc) ==
    PropsAcc(TRUE, insert(acc.val, prop_name, kept),
             retain_ne(acc.required, prop_name), NoErr)

include_property(prop_name, kept, acc) ==
    PropsAcc(TRUE, insert(acc.val, prop_name, kept), acc.required, NoErr)

\* The arms that keep the property, given the resolved property.
match_kept(prop_name, visibility, kept, acc) ==
    IF ~kept.ok THEN PropsAcc(FALSE, acc.val, acc.required, kept.err)
    ELSE IF visibility = "required"
    THEN required_property(prop_name, kept.val, acc)
    ELSE IF visibility = "optional"
    THEN optional_property(prop_name, kept.val, acc)
    ELSE include_property(prop_name, kept.val, acc)

\* `match visibility`, given what get_visibility returned for the property.
match_visibility(prop_name, prop_value, options, prop_path, v, acc) ==
    IF ~v.ok THEN PropsAcc(FALSE, acc.val, acc.required, v.err)
    ELSE IF v.vis = "omit" THEN omit_property(prop_name, acc)
    ELSE match_kept(prop_name, v.vis,
                    keep_property(prop_value, options, prop_path, v.transition),
                    acc)

resolve_property(prop_name, prop_value, options, path, acc) ==
    match_visibility(prop_name, prop_value, options, Append(path, prop_name),
                     get_visibility(prop_value, options.direction,
                                    options.operation, Append(path, prop_name)),
                     acc)

RECURSIVE resolve_properties_loop(_, _, _, _)
resolve_properties_loop(pkv, options, path, acc) ==
    IF pkv = <<>> \/ ~acc.ok THEN acc
    ELSE resolve_properties_loop(Tail(pkv), options, path,
             resolve_property(Head(pkv).k, Head(pkv).v, options, path, acc))

resolve_properties(value, options, path, required) ==
    IF ~is_object(value) THEN PropsAcc(TRUE, value, required, NoErr)
    ELSE resolve_properties_loop(value.kv, options, path,
                                 PropsAcc(TRUE, Obj(<<>>), required, NoErr))

\* The loops of resolve_defs (named entries) and of resolve_array /
\* resolve_composition (indexed elements, i counted from 0).
\* result.insert(name, resolved?) and result.push(resolved?)
insert_resolved(acc, name, resolved) ==
    IF resolved.ok THEN Ok(insert(acc.val, name, resolved.val)) ELSE resolved
push_resolved(acc, resolved) ==
    IF resolved.ok THEN Ok(Arr(Append(Items(acc.val), resolved.val)))
    ELSE resolved

RECURSIVE resolve_defs_loop(_, _, _, _)
resolve_defs_loop(dkv, options, path, acc) ==
    IF dkv = <<>> \/ ~acc.ok THEN acc
    ELSE resolve_defs_loop(Tail(dkv), options, path,
             insert_resolved(acc, Head(dkv).k,
                 resolve_value(Head(dkv).v, options, Append(path, Head(dkv).k))))

resolve_defs(value, options, path) ==
    IF ~is_object(value) THEN Ok(value)
    ELSE resolve_defs_loop(value.kv, options, path, Ok(Obj(<<>>)))

RECURSIVE resolve_array_loop(_, _, _, _, _)
resolve_array_loop(items, i, options, path, acc) ==
    IF i >= Len(items) \/ ~acc.ok THEN acc
    ELSE resolve_array_loop(items, i + 1, options, path,
             push_resolved(acc,
                 resolve_value(items[i + 1], options, Append(path, ToString(i)))))

resolve_array(arr, options, path) ==
    resolve_array_loop(Items(arr), 0, options, path, Ok(Arr(<<>>)))

resolve_composition(value, options, path) ==
    IF ~is_array(value) THEN Ok(value)
    ELSE resolve_array_loop(Items(value), 0, options, path, Ok(Arr(<<>>)))

\* inject_annotations(item, ..)? when annotations were collected, and
\* resolve_value(&item, ..)? on what it returns.
inject_item(item, merged, options, item_path) ==
    IF merged.kv # <<>>
    THEN inject_annotations(item, merged, annotation_key(options.direction),
                            options, item_path)
    ELSE Ok(item)
resolve_item(item, options, item_path) ==
    IF ~item.ok THEN item ELSE resolve_value(item.val, options, item_path)

RECURSIVE resolve_allof_loop(_, _, _, _, _, _)
resolve_allof_loop(items, i, merged, options, path, acc) ==
    IF i >= Len(items) \/ ~acc.ok THEN acc
    ELSE resolve_allof_loop(items, i + 1, merged, options, path,
             push_resolved(acc,
                 resolve_item(inject_item(items[i + 1], merged, options,
                                          Append(path, ToString(i))),
                              options, Append(path, ToString(i)))))

\* validated looking at the outcome of the type check after the loop.
validated_loop_first(types, value, merged, options, path) ==
    IF ~resolve_allof_loop(Items(value), 0, merged, options, path,
                           Ok(Arr(<<>>))).ok
    THEN resolve_allof_loop(Items(value), 0, merged, options, path,
                            Ok(Arr(<<>>)))
    ELSE IF ~types.ok THEN Err(types.err)
    ELSE resolve_allof_loop(Items(value), 0, merged, options, path,
                            Ok(Arr(<<>>)))

\* validate_allof_types(arr, path)?, then the loop over the branches.
validated(types, value, merged, options, path) ==
    IF ~types.ok THEN Err(types.err)
    ELSE resolve_allof_loop(Items(value), 0, merged, options, path,
                            Ok(Arr(<<>>)))

resolve_allof(value, options, path) ==
    IF ~is_array(value) THEN Ok(value)
    ELSE validated(validate_allof_types(Items(value), path), value,
                   collect_allof_annotations(Items(value),
                       annotation_key(options.direction)),
                   options, path)

\* One key of the loop of resolve_object that is not an annotation key; acc
\* carries the result map and new_required.
emit(key, r, acc) ==
    IF r.ok
    THEN PropsAcc(TRUE, insert(acc.val, key, r.val), acc.required, NoErr)
    ELSE PropsAcc(FALSE, acc.val, acc.required, r.err)

\* The `properties` arm: the resolved properties and the required list they
\* leave.
emit_properties(key, r, acc) ==
    IF r.ok THEN PropsAcc(TRUE, insert(acc.val, key, r.val), r.required, NoErr)
    ELSE PropsAcc(FALSE, acc.val, acc.required, r.err)

resolve_schema_key(key, value, options, path, acc) ==
    IF key = "properties"
    THEN emit_properties(key,
             resolve_properties(value, options, Append(path, key), acc.required),
             acc)
    ELSE IF key = "items"
    THEN emit(key, resolve_value(value, options, Append(path, key)), acc)
    ELSE IF key \in {"$defs", "definitions"}
    THEN emit(key, resolve_defs(value, options, Append(path, key)), acc)
    ELSE IF key = "allOf"
    THEN emit(key, resolve_allof(value, options, Append(path, key)), acc)
    ELSE IF key \in {"anyOf", "oneOf"}
    THEN emit(key, resolve_composition(value, options, Append(path, key)), acc)
    ELSE IF key = "additionalProperties"
    THEN IF is_object(value)
         THEN emit(key, resolve_value(value, options, Append(path, key)), acc)
         ELSE emit(key, Ok(value), acc)
    ELSE IF key = "required" THEN acc
    ELSE emit(key, resolve_value(value, options, Append(path, key)), acc)

\* resolve_key without the skip of annotation keys.
resolve_key_keeps_annotations(key, value, options, path, acc) ==
    resolve_schema_key(key, value, options, path, acc)

\* One key of the loop of resolve_object: annotation keys are skipped.
resolve_key(key, value, options, path, acc) ==
    IF key \in UCP_ANNOTATIONS THEN acc
    ELSE resolve_schema_key(key, value, options, path, acc)

RECURSIVE resolve_object_loop(_, _, _, _)
resolve_object_loop(kv, options, path, acc) ==
    IF kv = <<>> \/ ~acc.ok THEN acc
    ELSE resolve_object_loop(Tail(kv), options, path,
             resolve_key(Head(kv).k, Head(kv).v, options, path, acc))

\* required_emitted without the test for an original `required` key.
required_emitted_if_non_empty(new_required, map) == new_required # <<>>

\* Whether resolve_object writes a `required` key.
required_emitted(new_required, map) ==
    new_required # <<>> \/ contains_key(map, "required")

\* emit_required writing the `required` key before the other keys.
emit_required_first(map, acc) ==
    IF ~acc.ok THEN Err(acc.err)
    ELSE IF required_emitted(acc.required, map)
    THEN Ok([acc.val EXCEPT !.kv = <<KV("required", StrArr(acc.required))>> \o @])
    ELSE Ok(acc.val)

\* The end of resolve_object: the `required` key is written last.
emit_required(map, acc) ==
    IF ~acc.ok THEN Err(acc.err)
    ELSE IF required_emitted(acc.required, map)
    THEN Ok(insert(acc.val, "required", StrArr(acc.required)))
    ELSE Ok(acc.val)

resolve_object(map, options, path) ==
    emit_required(map,
        resolve_object_loop(map.kv, options, path,
            PropsAcc(TRUE, Obj(<<>>), required_names(map), NoErr)))

resolve_value(value, options, path) ==
    IF is_object(value) THEN resolve_object(value, options, path)
    ELSE IF is_array(value) THEN resolve_array(value, options, path)
    ELSE Ok(value)

(* ---------------------------------------------------------------------- *)
(* Strict closing                                                          *)
(* ---------------------------------------------------------------------- *)
\* close_key writing `true` where the keyword is absent.
close_key_opens_absent(map, key) ==
    IF ~contains_key(map, key) THEN insert(map, key, Bool(TRUE))
    ELSE IF get(map, key) = Bool(TRUE) THEN insert(map, key, Bool(FALSE))
    ELSE map

\* close_key inserting only where the keyword is absent.
close_key_keeps_true(map, key) ==
    IF ~contains_key(map, key) THEN insert(map, key, Bool(FALSE))
    ELSE map

\* match map.get(key) { None | Some(Bool(true)) => insert(key, false), _ => {} }
close_key(map, key) ==
    IF ~contains_key(map, key) THEN insert(map, key, Bool(FALSE))
    ELSE IF get(map, key) = Bool(TRUE) THEN insert(map, key, Bool(FALSE))
    ELSE map

RECURSIVE close_additional_properties_inner(_, _)

RECURSIVE close_each(_, _)
close_each(kv, in_branch) ==
    IF kv = <<>> THEN <<>>
    ELSE <<KV(Head(kv).k,
              close_additional_properties_inner(Head(kv).v, in_branch))>>
         \o close_each(Tail(kv), in_branch)

\* close_child treating the elements of a composition array as any node.
close_child_closes_branches(key, child) ==
    IF key = "properties"
    THEN IF is_object(child)
         THEN [child EXCEPT !.kv = close_each(child.kv, FALSE)] ELSE child
    ELSE IF key \in {"items", "additionalProperties", "unevaluatedProperties"}
    THEN close_additional_properties_inner(child, FALSE)
    ELSE IF key \in {"$defs", "definitions"}
    THEN IF is_object(child)
         THEN [child EXCEPT !.kv = close_each(child.kv, FALSE)] ELSE child
    ELSE IF key \in {"allOf", "anyOf", "oneOf"}
    THEN IF is_array(child)
         THEN [child EXCEPT !.kv = close_each(child.kv, FALSE)] ELSE child
    ELSE child

\* close_child without the recursion into `items`.
close_child_skips_items(key, child) ==
    IF key = "properties"
    THEN IF is_object(child)
         THEN [child EXCEPT !.kv = close_each(child.kv, FALSE)] ELSE child
    ELSE IF key \in {"additionalProperties", "unevaluatedProperties"}
    THEN close_additional_properties_inner(child, FALSE)
    ELSE IF key \in {"$defs", "definitions"}
    THEN IF is_object(child)
         THEN [child EXCEPT !.kv = close_each(child.kv, FALSE)] ELSE child
    ELSE IF key \in {"allOf", "anyOf", "oneOf"}
    THEN IF is_array(child)
         THEN [child EXCEPT !.kv = close_each(child.kv, TRUE)] ELSE child
    ELSE child

close_child(key, child) ==
    IF key = "properties"
    THEN IF is_object(child)
         THEN [child EXCEPT !.kv = close_each(child.kv, FALSE)] ELSE child
    ELSE IF key \in {"items", "additionalProperties", "unevaluatedProperties"}
    THEN close_additional_properties_inner(child, FALSE)
    ELSE IF key \in {"$defs", "definitions"}
    THEN IF is_object(child)
         THEN [child EXCEPT !.kv = close_each(child.kv, FALSE)] ELSE child
    ELSE IF key \in {"allOf", "anyOf", "oneOf"}
    THEN IF is_array(child)
         THEN [child EXCEPT !.kv = close_each(child.kv, TRUE)] ELSE child
    ELSE child

RECURSIVE close_children(_)
close_children(kv) ==
    IF kv = <<>> THEN <<>>
    ELSE <<KV(Head(kv).k, close_child(Head(kv).k, Head(kv).v))>>
         \o close_children(Tail(kv))

close_additional_properties_inner(value, in_composition_branch) ==
    IF ~is_object(value) THEN value
    ELSE LET has_composition ==
                 contains_key(value, "allOf") \/ contains_key(value, "anyOf")
                 \/ contains_key(value, "oneOf")
             is_object_schema ==
                 (contains_key(value, "type") /\ get(value, "type") = Str("object"))
                 \/ contains_key(value, "properties")
             closed ==
                 IF ~in_composition_branch /\ (is_object_schema \/ has_composition)
                 THEN IF has_composition
                      THEN close_key(value, "unevaluatedProperties")
                      ELSE close_key(value, "additionalProperties")
                 ELSE value
         IN  [closed EXCEPT !.kv = close_children(closed.kv)]

close_additional_properties(value) ==
    close_additional_properties_inner(value, FALSE)

\* if options.strict { close_additional_properties(&mut resolved) }
close_if_strict(resolved, options) ==
    IF ~resolved.ok THEN resolved
    ELSE IF options.strict
    THEN Ok(close_additional_properties(resolved.val))
    ELSE resolved

resolve(schema, options) ==
    close_if_strict(resolve_value(schema, options, <<>>), options)

(* ---------------------------------------------------------------------- *)
(* Inputs: annotations, property values, schemas                           *)
(* ---------------------------------------------------------------------- *)
MaxProps == 2
MaxBranches == 2

Directions == {"Request", "Response"}
Operations == {"create", "update"}

\* str::to_lowercase on the operation words of the model.
to_lowercase(word) ==
    CASE word \in {"create", "Create", "CREATE"} -> "create"
      [] word \in {"update", "Update", "UPDATE"} -> "update"
      [] OTHER -> word

\* ResolveOptions::new(direction, operation) and .strict(strict)
ResolveOptions_new(direction, operation) ==
    [direction |-> direction, operation |-> to_lowercase(operation),
     strict |-> FALSE]
with_strict(opts, strict) == [opts EXCEPT !.strict = strict]

Options ==
    {with_strict(ResolveOptions_new(d, op), st) :
        d \in Directions, op \in Operations, st \in BOOLEAN}

Descriptor(f, t, d) ==
    Obj(<<KV("from", Str(f)), KV("to", Str(t)), KV("description", Str(d))>>)
Wrapped(tr) == Obj(<<KV("transition", tr)>>)
OpMap(op, entry) == Obj(<<KV(op, entry)>>)

\* Transition descriptors, well-formed and not: each field a visibility word,
\* an unknown word, a non-string, or absent ("-"); with and without extras.
FieldChoices == Visibilities \cup {"bogus", "-", "#"}
DescChoices == {"d", "", "-", "#"}
Field(name, c) ==
    IF c = "-" THEN <<>>
    ELSE IF c = "#" THEN <<KV(name, Num("1"))>>
    ELSE <<KV(name, Str(c))>>
Descriptors ==
    {Obj(Field("from", f) \o Field("to", t) \o Field("description", d)) :
        f \in FieldChoices, t \in FieldChoices, d \in DescChoices}

Words == {Str(w) : w \in Visibilities \cup {"readonly", "maybe", "Omit", ""}}
NonAnnotations == {Num("123"), Bool(TRUE), Null, Arr(<<Str("omit")>>)}
Entries == Words \cup NonAnnotations \cup Descriptors
           \cup {Wrapped(d) : d \in Descriptors}

\* Every annotation value get_visibility is exercised on.
Annotations ==
    Words \cup NonAnnotations
    \cup {OpMap("create", e) : e \in Entries}
    \cup {Obj(<<KV("create", Str("omit")), KV("update", e)>>) : e \in Words}
    \cup {Wrapped(d) : d \in Descriptors}
    \cup {Wrapped(e) : e \in Words \cup NonAnnotations}
    \cup {Obj(<<KV("create", e), KV("transition", Descriptor("required", "omit", "d"))>>) :
            e \in Words \cup NonAnnotations}
    \cup {Obj(<<KV("create", Str("omit")), KV("transition", t)>>) :
            t \in {Str("required"), Num("1"), Descriptor("omit", "omit", "d"),
                   Descriptor("required", "omit", "")}}
    \cup {Obj(<<>>)}

TypeString == KV("type", Str("string"))

Props ==
    {Obj(<<TypeString>>), Bool(TRUE)}
    \cup {Obj(<<TypeString, KV(key, a)>>) :
            key \in UCP_ANNOTATIONS, a \in Annotations}
    \cup {Obj(<<TypeString, KV("ucp_request", a), KV("ucp_response", b)>>) :
            a \in Words, b \in Words}


\* The annotation values used inside schemas.
SchemaAnnotations ==
    {Str("omit"), Str("required"), Str("optional"), Str("include"),
     Str("readonly"), Num("123"),
     Obj(<<KV("create", Str("omit")), KV("update", Str("required"))>>),
     OpMap("create", Num("5")),
     OpMap("create", Str("maybe")),
     OpMap("update", Wrapped(Descriptor("required", "omit", "d"))),
     OpMap("create", Descriptor("omit", "required", "d")),
     Wrapped(Descriptor("required", "optional", "d")),
     Wrapped(Descriptor("optional", "omit", "d")),
     Wrapped(Descriptor("include", "omit", "d")),
     Wrapped(Obj(<<KV("from", Str("required")), KV("to", Str("omit"))>>)),
     Wrapped(Descriptor("omit", "omit", "d")),
     Wrapped(Descriptor("bogus", "omit", "d")),
     Wrapped(Str("omit")),
     Obj(<<KV("create", Str("optional")),
           KV("transition", Descriptor("required", "omit", "d"))>>)}

Annotated(key, a) == Obj(<<TypeString, KV(key, a)>>)

\* Values of the first property of an object.
FirstProps ==
    {Obj(<<TypeString>>), Bool(TRUE)}
    \cup {Annotated("ucp_request", a) : a \in SchemaAnnotations}
    \cup {Annotated("ucp_response", Str("omit")),
          Annotated("ucp_response", Str("required")),
          Obj(<<TypeString, KV("ucp_request", Str("required")),
                KV("ucp_response", Str("omit"))>>),
          Obj(<<TypeString, KV("deprecated", Bool(TRUE)),
                KV("ucp_request", Wrapped(Descriptor("required", "optional", "d")))>>),
          Obj(<<KV("deprecated", Bool(FALSE)),
                KV("x-ucp-schema-transition", Str("old")), TypeString,
                KV("ucp_request", Wrapped(Descriptor("optional", "omit", "d")))>>)}

\* Values of the properties after the first.
OtherProps ==
    {Obj(<<TypeString>>), Annotated("ucp_request", Str("required")),
     Annotated("ucp_request", Str("omit")),
     Annotated("ucp_request", Str("readonly"))}

Names == <<"id", "name", "note", "tag">>

PropChoices(i) == IF i = 1 THEN FirstProps ELSE OtherProps

\* All property maps of n entries, named Names[1..n] in that order.
RECURSIVE PropMaps(_)
PropMaps(n) ==
    IF n = 0 THEN {<<>>}
    ELSE {Append(m, KV(Names[n], p)) : m \in PropMaps(n - 1), p \in PropChoices(n)}

\* `required` arrays for an object of n properties: none, empty, each single
\* name, all names, and arrays naming a property the object does not declare.
RequiredChoices(n) ==
    {<<>>, <<KV("required", StrArr(<<>>))>>,
     <<KV("required", StrArr([i \in 1..n |-> Names[i]]))>>,
     <<KV("required", StrArr(<<"ghost">>))>>,
     <<KV("required", StrArr(<<Names[1], "ghost">>))>>}
    \cup {<<KV("required", StrArr(<<Names[i]>>))>> : i \in 1..n}

TypeObject == KV("type", Str("object"))

FlatSchemas ==
    UNION {{Obj(<<TypeObject>> \o r \o <<KV("properties", Obj(m))>>) :
               m \in PropMaps(n), r \in RequiredChoices(n)} : n \in 1..MaxProps}


Plain == Obj(<<TypeString>>)
Req(names) == KV("required", StrArr(names))
PropsOf(entries) == KV("properties", Obj(entries))

\* allOf branches: bases that require / declare `id`, extensions that annotate
\* it, and branches that disagree on its type.
Branches ==
    {Obj(<<Req(<<"id">>), PropsOf(<<KV("id", Plain)>>)>>),
     Obj(<<PropsOf(<<KV("id", Plain)>>)>>),
     Obj(<<Req(<<"id">>)>>),
     Obj(<<PropsOf(<<KV("id", Annotated("ucp_request", Str("omit")))>>)>>),
     Obj(<<PropsOf(<<KV("id", Annotated("ucp_request", Str("optional")))>>)>>),
     Obj(<<PropsOf(<<KV("id", Annotated("ucp_request", Str("required")))>>)>>),
     Obj(<<PropsOf(<<KV("id", Annotated("ucp_request",
               Obj(<<KV("create", Str("omit")), KV("update", Str("required"))>>)))>>)>>),
     Obj(<<Req(<<"id">>),
           PropsOf(<<KV("id", Annotated("ucp_request", Str("required")))>>)>>),
     Obj(<<PropsOf(<<KV("id", Obj(<<KV("type", Str("integer"))>>))>>)>>),
     Obj(<<Req(<<"id", "name">>),
           PropsOf(<<KV("id", Plain), KV("name", Plain)>>)>>),
     Obj(<<PropsOf(<<KV("name", Annotated("ucp_request", Str("omit"))),
                     KV("id", Annotated("ucp_request", Str("readonly")))>>)>>),
     Obj(<<PropsOf(<<KV("id", Annotated("ucp_response", Str("omit")))>>)>>),
     Obj(<<TypeObject,
           PropsOf(<<KV("id", Obj(<<KV("type", Arr(<<Str("string"), Str("null")>>)),
               KV("ucp_request", Wrapped(Descriptor("required", "omit", "d")))>>))>>)>>)}

RECURSIVE BranchLists(_)
BranchLists(n) ==
    IF n = 0 THEN {<<>>}
    ELSE {Append(bs, b) : bs \in BranchLists(n - 1), b \in Branches}

AllOfSchemas ==
    UNION {{Obj(<<KV("allOf", Arr(bs))>>) : bs \in BranchLists(n)} :
              n \in 2..MaxBranches}

\* Object schemas nested in a property, in items, in $defs, in anyOf and in
\* additionalProperties, and an allOf below a property.
InnerProps ==
    {Plain, Annotated("ucp_request", Str("omit")),
     Annotated("ucp_request", Str("required")),
     Annotated("ucp_request", Str("optional")),
     Annotated("ucp_request", Wrapped(Descriptor("required", "omit", "d"))),
     Annotated("ucp_response", Str("omit")),
     Annotated("ucp_request", Str("readonly"))}

Inner(p, extra) ==
    Obj(<<TypeObject>> \o extra
        \o <<Req(<<"id">>), PropsOf(<<KV("id", p)>>)>>)

OuterAnnotations ==
    {<<>>, <<KV("ucp_request", Str("omit"))>>,
     <<KV("ucp_request", Str("required"))>>,
     <<KV("ucp_request", Wrapped(Descriptor("optional", "omit", "d")))>>}

NestedSchemas ==
    {Obj(<<TypeObject, PropsOf(<<KV("outer", Inner(p, a))>>)>>) :
        p \in InnerProps, a \in OuterAnnotations}
    \cup {Obj(<<KV("type", Str("array")), KV("items", Inner(p, <<>>))>>) :
            p \in InnerProps}
    \cup {Obj(<<KV("$defs", Obj(<<KV("thing", Inner(p, <<>>))>>)),
                KV("definitions", Obj(<<KV("other", Inner(p, <<>>))>>))>>) :
            p \in InnerProps}
    \cup {Obj(<<KV("anyOf", Arr(<<Inner(p, <<>>), Inner(Plain, <<>>)>>))>>) :
            p \in InnerProps}
    \cup {Obj(<<KV("oneOf", Arr(<<Inner(p, <<>>), Plain>>)),
                KV("unevaluatedProperties", Bool(TRUE))>>) : p \in InnerProps}
    \cup {Obj(<<TypeObject, KV("additionalProperties", ap)>>) :
            ap \in {Bool(TRUE), Bool(FALSE)} \cup {Inner(p, <<>>) : p \in InnerProps}}
    \cup {Obj(<<TypeObject, PropsOf(<<KV("outer",
              Obj(<<KV("allOf", Arr(<<b1, b2>>))>>))>>)>>) :
            b1 \in Branches, b2 \in Branches}
    \cup {Obj(<<KV("allOf", Arr(<<
              Obj(<<PropsOf(<<KV("outer", Inner(p, <<>>))>>)>>),
              Obj(<<PropsOf(<<KV("outer", Annotated("ucp_request", a))>>)>>)>>))>>) :
            p \in InnerProps, a \in {Str("omit"), Str("required")}}

\* Schemas whose property or definition is itself named as an annotation key,
\* and primitive / keyword-free schemas.
SpecialSchemas ==
    {Obj(<<TypeObject, PropsOf(<<KV(k, Plain)>>)>>) : k \in UCP_ANNOTATIONS}
    \cup {Obj(<<KV("$defs", Obj(<<KV(k, Plain)>>))>>) : k \in UCP_ANNOTATIONS}
    \cup {Obj(<<TypeObject, KV(k, Str("omit")),
                PropsOf(<<KV("outer", Obj(<<TypeObject,
                    PropsOf(<<KV(k, Plain)>>)>>))>>)>>) : k \in UCP_ANNOTATIONS}
    \cup {Bool(TRUE), Obj(<<>>), Plain,
          Obj(<<KV("required", Bool(TRUE)), TypeString>>),
          Obj(<<TypeObject, KV("required", StrArr(<<"id">>))>>)}
    \cup {Obj(<<TypeObject, KV(k, Inner(Plain, <<>>))>>) :
            k \in {"not", "if", "propertyNames"}}
    \cup {Obj(<<KV("type", Str("array")),
                KV("items", Arr(<<Inner(Plain, <<>>), Plain>>))>>),
          Obj(<<KV("type", Str("array")),
                KV("prefixItems", Arr(<<Inner(Plain, <<>>)>>))>>),
          Obj(<<TypeObject, KV("additionalProperties", Bool(FALSE)),
                KV("anyOf", Arr(<<Inner(Plain, <<>>), Plain>>))>>),
          Obj(<<KV("anyOf", Arr(<<Inner(Plain, <<>>)>>)),
                KV("unevaluatedProperties", Inner(Plain, <<>>))>>),
          Obj(<<KV("additionalProperties", Inner(Plain, <<>>)),
                KV("anyOf", Arr(<<Plain>>))>>),
          Obj(<<TypeObject, KV("additionalProperties", Str("none"))>>)}

\* allOf of three branches that each declare `id` with a type of their own:
\* three strings and an array-valued one.
\* Composition branches with schemas nested below them.
NestingBranches ==
    {Obj(<<TypeObject, PropsOf(<<KV("inner", Inner(Plain, <<>>))>>)>>),
     Obj(<<KV("type", Str("array")), KV("items", Inner(Plain, <<>>))>>),
     Obj(<<TypeObject, KV("$defs", Obj(<<KV("d", Inner(Plain, <<>>))>>))>>),
     Obj(<<PropsOf(<<KV("choice",
               Obj(<<KV("anyOf", Arr(<<Inner(Plain, <<>>), Plain>>))>>))>>)>>),
     Obj(<<TypeObject, KV("additionalProperties", Bool(TRUE))>>),
     Obj(<<TypeObject, KV("additionalProperties", Inner(Plain, <<>>))>>),
     Obj(<<KV("allOf", Arr(<<Inner(Plain, <<>>)>>))>>)}
BranchSchemas ==
    {Obj(<<KV(c, Arr(<<b, Plain>>))>>) :
        c \in {"allOf", "anyOf", "oneOf"}, b \in NestingBranches}

TypeChoices ==
    {Str("string"), Str("integer"), Str("number"),
     Arr(<<Str("string"), Str("null")>>)}
Typed(ty) == Obj(<<PropsOf(<<KV("id", Obj(<<KV("type", ty)>>))>>)>>)
TypeSchemas ==
    {Obj(<<KV("allOf", Arr(<<Typed(t1), Typed(t2), Typed(t3)>>))>>) :
        t1 \in TypeChoices, t2 \in TypeChoices, t3 \in TypeChoices}

\* The depth bound of tree rewrites, scaled down: resolve_value takes no
\* depth argument, so what it does below the bound does not depend on the
\* number.
MaxDepth == 6

\* An object schema below n levels of `items`, n beyond the bound.
RECURSIVE Nested(_, _)
Nested(n, inner) ==
    IF n = 0 THEN inner ELSE Obj(<<KV("items", Nested(n - 1, inner))>>)
DeepSchemas ==
    {Nested(MaxDepth + 1, Inner(p, <<>>)) :
        p \in {Plain, Annotated("ucp_request", Str("omit")),
               Annotated("ucp_response", Str("required"))}}

\* allOfs in which several errors compete: a branch that is weakened and has
\* a malformed annotation of its own, a type conflict next to a weakening, a
\* type conflict next to a malformed annotation, and a malformed annotation
\* in the branch before a weakened one.
Unknown == Annotated("ucp_request", Str("readonly"))
PrecedenceSchemas ==
    {Obj(<<KV("allOf", Arr(bs))>>) :
        bs \in {<<Obj(<<Req(<<"id">>),
                        PropsOf(<<KV("name", Unknown), KV("id", Plain)>>)>>),
                  Obj(<<PropsOf(<<KV("id", Annotated("ucp_request",
                                                     Str("omit")))>>)>>)>>,
                <<Obj(<<Req(<<"id">>), PropsOf(<<KV("id", Plain)>>)>>),
                  Obj(<<PropsOf(<<KV("id",
                      Obj(<<KV("type", Str("integer")),
                            KV("ucp_request", Str("omit"))>>))>>)>>)>>,
                <<Obj(<<PropsOf(<<KV("id", Unknown)>>)>>),
                  Obj(<<PropsOf(<<KV("id",
                      Obj(<<KV("type", Str("integer"))>>))>>)>>)>>,
                <<Obj(<<PropsOf(<<KV("name", Unknown)>>)>>),
                  Obj(<<Req(<<"id">>), PropsOf(<<KV("id", Plain)>>)>>),
                  Obj(<<PropsOf(<<KV("id", Annotated("ucp_request",
                                                     Str("optional")))>>)>>)>>}}

Schemas ==
    FlatSchemas \cup AllOfSchemas \cup NestedSchemas \cup SpecialSchemas
    \cup TypeSchemas \cup BranchSchemas \cup DeepSchemas \cup PrecedenceSchemas

(* ---------------------------------------------------------------------- *)
(* The state machine: one call of resolve or of get_visibility             *)
(* ---------------------------------------------------------------------- *)
VARIABLES call, schema, prop, requested, options, pc, result, vis, cmd, outcome

vars == <<call, schema, prop, requested, options, pc, result, vis, cmd, outcome>>

\* No command line and nothing printed: the library calls below run without
\* the binary.
NoCmd == [command |-> ""]
NoOut ==
    [exit |-> -1, stdout |-> <<>>, stderr |-> <<>>, file |-> <<>>,
     direction |-> "None"]

NoResult == [ok |-> FALSE, val |-> Null, err |-> NoErr]
NoVis == [ok |-> FALSE, vis |-> "", transition |-> NoTransition, err |-> NoErr]

TestPath == <<"test">>

Init ==
    /\ pc = "start"
    /\ result = NoResult
    /\ vis = NoVis
    /\ options \in Options
    /\ requested = options.operation
    /\ cmd = NoCmd
    /\ outcome = NoOut
    /\ \/ call = "resolve" /\ schema \in Schemas /\ prop = Null
       \/ /\ call = "get_visibility"
          /\ schema = Null
          /\ prop \in Props
          /\ options.strict = FALSE

Resolve ==
    /\ pc = "start"
    /\ call = "resolve"
    /\ result' = resolve(schema, options)
    /\ pc' = "done"
    /\ UNCHANGED <<call, schema, prop, requested, options, vis, cmd, outcome>>

GetVisibility ==
    /\ pc = "start"
    /\ call = "get_visibility"
    /\ vis' = get_visibility(prop, options.direction, options.operation, TestPath)
    /\ pc' = "done"
    /\ UNCHANGED <<call, schema, prop, requested, options, result, cmd, outcome>>

Next == Resolve \/ GetVisibility

Spec == Init /\ [][Next]_vars

\* The same two calls with the operation given in any letter case, on
\* annotations whose operation keys are written in any letter case.
RequestedOperations == {"create", "Create", "CREATE", "update", "UPDATE"}
OperationKeys == {"create", "Create", "CREATE", "update", "Update"}
OpEntries ==
    {Str("omit"), Str("required"), Str("optional"), Str("maybe"), Num("5"),
     Descriptor("required", "omit", "d")}
OpProps ==
    {Annotated(key, OpMap(k, e)) :
        key \in UCP_ANNOTATIONS, k \in OperationKeys, e \in OpEntries}
    \cup {Annotated("ucp_request",
              Obj(<<KV(k1, Str("omit")), KV(k2, Str("required"))>>)) :
            k1 \in {"create", "Create"}, k2 \in {"update", "Update"}}
OpSchemas ==
    {Obj(<<TypeObject>> \o r \o <<PropsOf(<<KV("id", p), KV("name", Plain)>>)>>) :
        p \in OpProps, r \in {<<>>, <<Req(<<"id">>)>>}}

OpInit ==
    /\ pc = "start"
    /\ result = NoResult
    /\ vis = NoVis
    /\ requested \in RequestedOperations
    /\ cmd = NoCmd
    /\ outcome = NoOut
    /\ \E d \in Directions :
           options = with_strict(ResolveOptions_new(d, requested), FALSE)
    /\ \/ call = "resolve" /\ schema \in OpSchemas /\ prop = Null
       \/ call = "get_visibility" /\ schema = Null /\ prop \in OpProps

OpSpec == OpInit /\ [][Next]_vars

(* ---------------------------------------------------------------------- *)
(* The library behind the command line (loader, bundler, composer,         *)
(* validator): results are the value or the exit code of the error         *)
(* ---------------------------------------------------------------------- *)
Loaded(v) == [ok |-> TRUE, code |-> 0, val |-> v, msg |-> ""]
Failed(code, msg) == [ok |-> FALSE, code |-> code, val |-> Null, msg |-> msg]

\* ResolveError::exit_code: an annotation, type or monotonicity error is
\* bad input semantics.
exit_code(err) == 2

\* detect_direction: Response for a non-empty ucp.capabilities mapping,
\* Request for a string meta.profile, None otherwise.
detect_direction(value) ==
    IF /\ has(value, "ucp")
       /\ has(get(value, "ucp"), "capabilities")
       /\ is_object(get(get(value, "ucp"), "capabilities"))
       /\ get(get(value, "ucp"), "capabilities").kv # <<>>
    THEN "Response"
    ELSE IF /\ has(value, "meta")
            /\ has(get(value, "meta"), "profile")
            /\ is_str(get(get(value, "meta"), "profile"))
    THEN "Request"
    ELSE "None"

\* The documents schema URLs and $ref locations lead to.
CheckoutSchema ==
    Obj(<<TypeObject, Req(<<"id">>),
          PropsOf(<<KV("id", Annotated("ucp_request", Str("omit"))),
                    KV("status", Annotated("ucp_response", Str("omit")))>>)>>)
DiscountSchema ==
    Obj(<<TypeObject,
          PropsOf(<<KV("discounts", Annotated("ucp_response", Str("required")))>>)>>)
FulfillmentSchema ==
    Obj(<<TypeObject, PropsOf(<<KV("fulfillment", Plain)>>)>>)
NodeSchema ==
    Obj(<<TypeObject,
          PropsOf(<<KV("value", Plain),
                    KV("children", Obj(<<KV("type", Str("array")),
                                         KV("items", Obj(<<KV("$ref", Str("#"))>>))>>))>>)>>)
CommonSchema ==
    Obj(<<KV("$defs", Obj(<<KV("address",
              Obj(<<TypeObject, PropsOf(<<KV("street", Plain)>>)>>))>>))>>)
WrapperSchema ==
    Obj(<<KV("$defs", Obj(<<KV("inner", Plain)>>)), TypeObject,
          PropsOf(<<KV("data", Obj(<<KV("$ref", Str("#/$defs/inner"))>>))>>)>>)
ASchema == Obj(<<TypeObject, PropsOf(<<KV("b", Obj(<<KV("$ref", Str("b.json"))>>))>>)>>)
BSchema == Obj(<<TypeObject, PropsOf(<<KV("a", Obj(<<KV("$ref", Str("a.json"))>>))>>)>>)
ChainSchema ==
    Obj(<<TypeObject,
          PropsOf(<<KV("next", Obj(<<KV("$ref", Str("common.json#/$defs/address"))>>))>>)>>)
Urls == {"checkout.json", "discount.json", "fulfillment.json", "types.json",
         "node.json", "common.json", "wrapper.json", "a.json", "b.json",
         "chain.json"}
Store ==
    [u \in Urls |->
        CASE u = "checkout.json" -> CheckoutSchema
          [] u = "discount.json" -> DiscountSchema
          [] u = "fulfillment.json" -> FulfillmentSchema
          [] u = "node.json" -> NodeSchema
          [] u = "common.json" -> CommonSchema
          [] u = "wrapper.json" -> WrapperSchema
          [] u = "a.json" -> ASchema
          [] u = "b.json" -> BSchema
          [] u = "chain.json" -> ChainSchema
          [] OTHER -> Plain]

\* The loader on a schema URL or a $ref location: c.unreachable are the
\* locations whose read or fetch fails.
fetch(url, c) ==
    IF url \in Urls /\ url \notin c.unreachable THEN Loaded(Store[url])
    ELSE Failed(3, "FetchFailed")

\* The reference grammar <location>#<fragment>: the text of a `$ref`, the
\* location before the `#` and the JSON Pointer after it, token by token.
Ref(text, location, pointer) ==
    [text |-> text, location |-> location, pointer |-> pointer]
RefGrammar ==
    {Ref("#", "", <<>>),
     Ref("#/$defs/inner", "", <<"$defs", "inner">>),
     Ref("#/$defs/loop", "", <<"$defs", "loop">>),
     Ref("#/$defs/gone", "", <<"$defs", "gone">>),
     Ref("#/properties", "", <<"properties">>),
     Ref("common.json#/$defs/address", "common.json", <<"$defs", "address">>),
     Ref("common.json#/$defs/gone", "common.json", <<"$defs", "gone">>),
     Ref("node.json#", "node.json", <<>>)}
parse_ref(text) ==
    IF \E r \in RefGrammar : r.text = text
    THEN CHOOSE r \in RefGrammar : r.text = text
    ELSE Ref(text, text, <<>>)

\* The JSON Pointer inside a document.
RECURSIVE resolve_pointer(_, _)
resolve_pointer(doc, pointer) ==
    IF pointer = <<>> THEN Loaded(doc)
    ELSE IF is_object(doc) /\ has(doc, Head(pointer))
    THEN resolve_pointer(get(doc, Head(pointer)), Tail(pointer))
    ELSE Failed(2, "PointerNotFound")

\* The document the bundle starts from.
RootLocation == "schema.json"

\* bundle_refs: a `$ref` node is replaced by its target, bundled first
\* (depth-first) in the document it lives in; "#" is kept as it is; an
\* intra-document pointer is looked up in the document the reference is
\* written in; `resolving` holds the (document, pointer) pairs under way; a
\* target that cannot be loaded or found fails the bundle.
RECURSIVE bundle_value(_, _, _, _, _)
RECURSIVE bundle_entries(_, _, _, _, _)
bundle_join(key, v, rest) ==
    IF ~rest.ok THEN rest ELSE Loaded(<<KV(key, v)>> \o rest.val)
bundle_rest(key, head, rest, doc, loc, resolving, c) ==
    IF ~head.ok THEN head
    ELSE bundle_join(key, head.val, bundle_entries(rest, doc, loc, resolving, c))
bundle_entries(kv, doc, loc, resolving, c) ==
    IF kv = <<>> THEN Loaded(<<>>)
    ELSE bundle_rest(Head(kv).k, bundle_value(Head(kv).v, doc, loc, resolving, c),
                     Tail(kv), doc, loc, resolving, c)
bundle_wrap(v, entries) ==
    IF ~entries.ok THEN entries ELSE Loaded([v EXCEPT !.kv = entries.val])
bundle_inline(found, doc, loc, resolving, c) ==
    IF ~found.ok THEN found ELSE bundle_value(found.val, doc, loc, resolving, c)
bundle_target(target, loc, ref, resolving, c) ==
    IF ~target.ok THEN Failed(3, "LoadFailed")
    ELSE IF <<loc, ref.pointer>> \in resolving THEN Failed(2, "CircularReference")
    ELSE bundle_inline(resolve_pointer(target.val, ref.pointer), target.val, loc,
                       resolving \cup {<<loc, ref.pointer>>}, c)
\* bundle_ref inlining external references only.
bundle_ref_external_only(ref, doc, loc, resolving, c) ==
    IF ref.location = "" THEN Loaded(Obj(<<KV("$ref", Str(ref.text))>>))
    ELSE bundle_target(fetch(ref.location, c), ref.location, ref, resolving, c)

bundle_ref(ref, doc, loc, resolving, c) ==
    IF ref.location = "" THEN bundle_target(Loaded(doc), loc, ref, resolving, c)
    ELSE bundle_target(fetch(ref.location, c), ref.location, ref, resolving, c)
\* bundle_value following "#" like any other reference.
bundle_value_follows_self_root(v, doc, loc, resolving, c) ==
    IF has(v, "$ref") /\ is_str(get(v, "$ref"))
    THEN bundle_ref(parse_ref(get(v, "$ref").s), doc, loc, resolving, c)
    ELSE IF is_object(v) \/ is_array(v)
    THEN bundle_wrap(v, bundle_entries(v.kv, doc, loc, resolving, c))
    ELSE Loaded(v)

bundle_value(v, doc, loc, resolving, c) ==
    IF has(v, "$ref") /\ is_str(get(v, "$ref"))
    THEN IF get(v, "$ref").s = "#" THEN Loaded(v)
         ELSE bundle_ref(parse_ref(get(v, "$ref").s), doc, loc, resolving, c)
    ELSE IF is_object(v) \/ is_array(v)
    THEN bundle_wrap(v, bundle_entries(v.kv, doc, loc, resolving, c))
    ELSE Loaded(v)
bundle_refs(value, c) == bundle_value(value, value, RootLocation, {}, c)

\* Capability {name, version, schema, extends}; extends = "" for a root.
Capability(name, url, parent) ==
    [name |-> name, schema_url |-> url, extends |-> parent]

\* extract_capabilities: the first version entry of each name of
\* ucp.capabilities, in insertion order; NoCapabilities on an empty mapping.
first_version(name, versions) ==
    Capability(name, get(versions.kv[1].v, "schema").s,
               IF has(versions.kv[1].v, "extends")
               THEN get(versions.kv[1].v, "extends").s ELSE "")
capabilities_of(caps) ==
    IF caps.kv = <<>> THEN Failed(2, "NoCapabilities")
    ELSE Loaded([i \in 1..Len(caps.kv) |->
                    first_version(caps.kv[i].k, caps.kv[i].v)])
extract_capabilities(payload) ==
    IF has(payload, "ucp") /\ has(get(payload, "ucp"), "capabilities")
       /\ is_object(get(get(payload, "ucp"), "capabilities"))
    THEN capabilities_of(get(get(payload, "ucp"), "capabilities"))
    ELSE Failed(2, "NoCapabilities")

\* extract_capabilities_from_profile: the capabilities of the profile
\* document at the URL, or the failure of the fetch; c.profile_caps is what
\* the profile URL gives.
extract_capabilities_from_profile(c) == c.profile_caps

roots(caps) == SelectSeq(caps, LAMBDA x : x.extends = "")
extensions(caps) == SelectSeq(caps, LAMBDA x : x.extends # "")
CapabilityNames(caps) == {caps[i].name : i \in 1..Len(caps)}

\* The schemas of the capabilities in order, or the first failing fetch.
RECURSIVE fetch_all(_, _)
fetch_join(head, rest) ==
    IF ~rest.ok THEN rest ELSE Loaded(<<head>> \o rest.val)
fetch_rest(head, rest, c) ==
    IF ~head.ok THEN head ELSE fetch_join(head.val, fetch_all(rest, c))
fetch_all(caps, c) ==
    IF caps = <<>> THEN Loaded(<<>>)
    ELSE fetch_rest(fetch(Head(caps).schema_url, c), Tail(caps), c)

\* The branches of the composed allOf, given the root schema followed by
\* the extension schemas: compose_with_extensions finds two branches, the
\* discount and the fulfillment extension, for a root with two extensions.
compose_branches(schemas) == Tail(schemas)

\* compose: the root schema alone when nothing extends it, a lone branch
\* as it is (the output is never an allOf of one branch), else the allOf of
\* the branches; the result is bundled.
compose_all(branches) ==
    IF Len(branches) = 1 THEN branches[1]
    ELSE Obj(<<KV("allOf", Arr(branches))>>)
composed(fetched, c) ==
    IF ~fetched.ok THEN fetched
    ELSE IF Len(fetched.val) = 1 THEN bundle_refs(fetched.val[1], c)
    ELSE bundle_refs(compose_all(compose_branches(fetched.val)), c)
compose_schema(caps, c) ==
    IF Len(roots(caps)) = 0 THEN Failed(2, "NoRoot")
    ELSE IF Len(roots(caps)) > 1 THEN Failed(2, "MultipleRoots")
    ELSE IF \E i \in 1..Len(caps) :
                caps[i].extends # "" /\ caps[i].extends \notin CapabilityNames(caps)
    THEN Failed(2, "UnknownParent")
    ELSE composed(fetch_all(roots(caps) \o extensions(caps), c), c)

compose_capabilities(caps, c) ==
    IF ~caps.ok THEN caps ELSE compose_schema(caps.val, c)
\* compose_from_payload: the capabilities of the payload itself, or of the
\* profile a request names.
compose_from_payload(payload, c) ==
    IF detect_direction(payload) = "Request"
    THEN compose_capabilities(extract_capabilities_from_profile(c), c)
    ELSE compose_capabilities(extract_capabilities(payload), c)

\* extract_jsonrpc_payload: the value under the short name of the root
\* capability (the last dot-segment of its name).
short_name(name) ==
    CASE name = "dev.ucp.checkout" -> "checkout"
      [] name = "dev.ucp.discount" -> "discount"
      [] name = "dev.ucp.fulfillment" -> "fulfillment"
      [] OTHER -> name
extract_jsonrpc_payload(envelope, caps) ==
    IF Len(roots(caps)) = 0 THEN Failed(2, "NoRoot")
    ELSE IF has(envelope, short_name(roots(caps)[1].name))
    THEN Loaded(get(envelope, short_name(roots(caps)[1].name)))
    ELSE Failed(2, "MissingPayload")

\* validate: resolve the schema, then the external validator's verdict on
\* the payload (c.valid).
ValidOk == [kind |-> "Ok", err |-> NoErr, errors |-> <<>>]
Invalid(errors) == [kind |-> "Invalid", err |-> NoErr, errors |-> errors]
ResolveFailed(err) == [kind |-> "Resolve", err |-> err, errors |-> <<>>]
PayloadError ==
    Obj(<<KV("path", Str("/id")), KV("message", Str("is required"))>>)
validate_resolved(resolved, payload, c) ==
    IF ~resolved.ok THEN ResolveFailed(resolved.err)
    ELSE IF c.valid THEN ValidOk
    ELSE Invalid(<<PayloadError>>)
validate(schema_value, payload, opts, c) ==
    validate_resolved(resolve(schema_value, opts), payload, c)

(* ---------------------------------------------------------------------- *)
(* The commands (src/src/bin/ucp-schema.rs)                                *)
(* ---------------------------------------------------------------------- *)
\* A line of output: a JSON document, a text, or "Error: <context>: <val>".
JsonLine(v) == [kind |-> "json", val |-> v, context |-> ""]
TextLine(text) == [kind |-> "text", val |-> Str(text), context |-> ""]
ErrorLine(context, msg) == [kind |-> "error", val |-> Str(msg), context |-> context]

println(o, line) == [o EXCEPT !.stdout = Append(@, line)]
eprintln(o, line) == [o EXCEPT !.stderr = Append(@, line)]
exited(o, code) == [o EXCEPT !.exit = code]

\* {"valid": false, "errors": [{"path": "", "message": msg}]}
ErrorEnvelope(context, msg) ==
    [kind |-> "json",
     val |-> Obj(<<KV("valid", Bool(FALSE)),
                   KV("errors", Arr(<<Obj(<<KV("path", Str("")),
                                            KV("message", Str(msg))>>)>>))>>),
     context |-> context]

\* report_error writing to stderr whatever the format.
report_error_to_stderr(json_output, context, msg, o) ==
    eprintln(o, ErrorLine(context, msg))

report_error(json_output, context, msg, o) ==
    IF json_output THEN println(o, ErrorEnvelope(context, msg))
    ELSE eprintln(o, ErrorLine(context, msg))

\* cli_err / cli_err_ctx followed by `?`: report, leave with the error's code.
cli_err(json_output, context, failed, o) ==
    exited(report_error(json_output, context, failed.msg, o), failed.code)

determine_direction(request_flag, response_flag, inferred) ==
    IF request_flag THEN "Request"
    ELSE IF response_flag THEN "Response"
    ELSE inferred

unwrap_or(direction, default) ==
    IF direction = "None" THEN default ELSE direction

write_json_output(value, c, o) ==
    IF c.output
    THEN IF c.write_fails
         THEN exited(eprintln(o, ErrorLine("", "Error writing")), 3)
         ELSE exited([o EXCEPT !.file = Append(@, value)], 0)
    ELSE exited(println(o, JsonLine(value)), 0)

\* ---- resolve -------------------------------------------------------------
resolve_written(c, resolved, o) ==
    IF ~resolved.ok
    THEN exited(report_error(FALSE, "", resolved.err.kind, o), exit_code(resolved.err))
    ELSE write_json_output(resolved.val, c, o)

resolve_directed(c, schema_value, direction, o) ==
    IF direction = "None"
    THEN exited(report_error(FALSE, "",
                    "--request or --response is required for schema input", o), 2)
    ELSE resolve_written(c,
             resolve(schema_value,
                     with_strict(ResolveOptions_new(direction, c.op), c.strict)),
             [o EXCEPT !.direction = direction])

\* resolve_loaded asking for the direction before looking at the outcome of
\* the composition or bundling.
resolve_loaded_direction_first(c, loaded, context, detected, o) ==
    IF determine_direction(c.request, c.response, detected) = "None"
    THEN exited(report_error(FALSE, "",
                    "--request or --response is required for schema input", o), 2)
    ELSE IF ~loaded.ok THEN cli_err(FALSE, context, loaded, o)
    ELSE resolve_directed(c, loaded.val,
             determine_direction(c.request, c.response, detected), o)

resolve_loaded(c, loaded, context, detected, o) ==
    IF ~loaded.ok THEN cli_err(FALSE, context, loaded, o)
    ELSE resolve_directed(c, loaded.val,
             determine_direction(c.request, c.response, detected), o)

\* resolve_detected without the two flag checks.
resolve_detected_any_flags(c, input, detected, o) ==
    IF detected # "None"
    THEN resolve_loaded(c, compose_from_payload(input, c), "", detected, o)
    ELSE IF c.bundle
    THEN resolve_loaded(c, bundle_refs(input, c), "bundling refs", detected, o)
    ELSE resolve_loaded(c, Loaded(input), "", detected, o)

resolve_detected(c, input, detected, o) ==
    IF detected # "None" /\ c.bundle
    THEN exited(report_error(FALSE, "",
                    "--bundle does not apply to payload input", o), 2)
    ELSE IF detected = "None" /\ (c.schema_local_base \/ c.schema_remote_base)
    THEN exited(report_error(FALSE, "",
                    "--schema-local-base/--schema-remote-base only apply to payload input",
                    o), 2)
    ELSE IF detected # "None"
    THEN resolve_loaded(c, compose_from_payload(input, c), "", detected, o)
    ELSE IF c.bundle
    THEN resolve_loaded(c, bundle_refs(input, c), "bundling refs", detected, o)
    ELSE resolve_loaded(c, Loaded(input), "", detected, o)

run_resolve(c, o) ==
    IF ~c.source.ok THEN cli_err(FALSE, "", c.source, o)
    ELSE resolve_detected(c, c.source.val, detect_direction(c.source.val), o)

\* ---- compose -------------------------------------------------------------
compose_written(c, schema_value, o) ==
    IF ~schema_value.ok THEN cli_err(FALSE, "", schema_value, o)
    ELSE write_json_output(schema_value.val, c, o)

run_compose(c, o) ==
    IF ~c.source.ok THEN cli_err(FALSE, "loading payload", c.source, o)
    ELSE IF detect_direction(c.source.val) = "None"
    THEN exited(report_error(FALSE, "",
                    "input is not a self-describing payload", o), 2)
    ELSE compose_written(c, compose_from_payload(c.source.val, c), o)

\* ---- validate ------------------------------------------------------------
ValidEnvelope == Obj(<<KV("valid", Bool(TRUE))>>)
InvalidEnvelope(errors) ==
    Obj(<<KV("valid", Bool(FALSE)), KV("errors", Arr(errors))>>)

RECURSIVE eprint_errors(_, _)
eprint_errors(o, errors) ==
    IF errors = <<>> THEN o
    ELSE eprint_errors(eprintln(o, [kind |-> "text", val |-> Head(errors),
                                    context |-> ""]), Tail(errors))

validate_reported(c, verdict, o) ==
    IF verdict.kind = "Ok"
    THEN IF c.json_output
         THEN exited(println(o, JsonLine(ValidEnvelope)), 0)
         ELSE exited(println(o, TextLine("Valid")), 0)
    ELSE IF verdict.kind = "Invalid"
    THEN IF c.json_output
         THEN exited(println(o, JsonLine(InvalidEnvelope(verdict.errors))), 1)
         ELSE exited(eprint_errors(eprintln(o, TextLine("Validation failed:")),
                                   verdict.errors), 1)
    ELSE exited(report_error(c.json_output, "", verdict.err.kind, o),
                exit_code(verdict.err))

validate_with(c, schema_value, payload, direction, o) ==
    validate_reported(c,
        validate(schema_value, payload,
                 with_strict(ResolveOptions_new(direction, c.op), c.strict), c),
        [o EXCEPT !.direction = direction])

validate_loaded(c, loaded, context, payload, direction, o) ==
    IF ~loaded.ok THEN cli_err(c.json_output, context, loaded, o)
    ELSE validate_with(c, loaded.val, payload, direction, o)

\* --profile: the payload is a raw object, nothing is inferred from it.
validate_profile(c, caps, payload, direction, o) ==
    IF ~caps.ok THEN cli_err(c.json_output, "", caps, o)
    ELSE validate_loaded(c, compose_schema(caps.val, c), "", payload, direction, o)

\* --schema: the direction is inferred from the payload, the schema loaded
\* and bundled (bundle_local_refs).
validate_explicit(c, payload, direction, o) ==
    IF ~c.schema_source.ok THEN cli_err(c.json_output, "loading schema", c.schema_source, o)
    ELSE validate_loaded(c, bundle_refs(c.schema_source.val, c), "bundling refs",
                         payload, direction, o)

\* A JSONRPC request: the capabilities of meta.profile, the nested payload.
validate_nested(c, caps, nested, direction, o) ==
    IF ~nested.ok THEN cli_err(c.json_output, "", nested, o)
    ELSE validate_loaded(c, compose_schema(caps, c), "", nested.val, direction, o)

validate_jsonrpc(c, payload_file, caps, direction, o) ==
    IF ~(has(payload_file, "meta") /\ has(get(payload_file, "meta"), "profile")
         /\ is_str(get(get(payload_file, "meta"), "profile")))
    THEN exited(report_error(c.json_output, "",
                    "JSONRPC request missing meta.profile", o), 2)
    ELSE IF ~caps.ok THEN cli_err(c.json_output, "", caps, o)
    ELSE validate_nested(c, caps.val,
             extract_jsonrpc_payload(payload_file, caps.val), direction, o)

validate_self_describing(c, payload_file, detected, o) ==
    IF detected = "Response"
    THEN validate_loaded(c, compose_from_payload(payload_file, c), "", payload_file,
             unwrap_or(determine_direction(c.request, c.response, "Response"),
                       "Response"), o)
    ELSE IF detected = "Request"
    THEN validate_jsonrpc(c, payload_file, extract_capabilities_from_profile(c),
             unwrap_or(determine_direction(c.request, c.response, "Request"),
                       "Request"), o)
    ELSE exited(report_error(c.json_output, "", "cannot infer direction", o), 2)

validate_mode(c, payload_file, o) ==
    IF c.profile
    THEN validate_profile(c, extract_capabilities_from_profile(c), payload_file,
             unwrap_or(determine_direction(c.request, c.response, "None"),
                       "Request"), o)
    ELSE IF c.schema
    THEN validate_explicit(c, payload_file,
             unwrap_or(determine_direction(c.request, c.response,
                                           detect_direction(payload_file)),
                       "Request"), o)
    ELSE validate_self_describing(c, payload_file, detect_direction(payload_file), o)

run_validate(c, o) ==
    IF c.schema /\ (c.schema_local_base \/ c.schema_remote_base)
    THEN exited(report_error(c.json_output, "",
                    "--schema-local-base/--schema-remote-base do not apply with explicit --schema",
                    o), 2)
    ELSE IF ~c.source.ok THEN cli_err(c.json_output, "loading payload", c.source, o)
    ELSE validate_mode(c, c.source.val, o)

\* ---- command lines and their surroundings --------------------------------
CapEntry(url, parent) ==
    Arr(<<Obj(<<KV("version", Str("1")), KV("schema", Str(url))>>
              \o IF parent = "" THEN <<>> ELSE <<KV("extends", Str(parent))>>)>>)
CheckoutOnly == <<KV("dev.ucp.checkout", CapEntry("checkout.json", ""))>>
OneExtension ==
    CheckoutOnly
    \o <<KV("dev.ucp.discount", CapEntry("discount.json", "dev.ucp.checkout"))>>
WithExtensions ==
    OneExtension
    \o <<KV("dev.ucp.fulfillment",
            CapEntry("fulfillment.json", "dev.ucp.checkout"))>>
UnknownParentCaps ==
    CheckoutOnly
    \o <<KV("dev.ucp.discount", CapEntry("discount.json", "dev.ucp.cart"))>>
NoRootCaps ==
    <<KV("dev.ucp.discount", CapEntry("discount.json", "dev.ucp.discount"))>>
TwoRootsCaps ==
    CheckoutOnly \o <<KV("dev.ucp.fulfillment", CapEntry("fulfillment.json", ""))>>

ResponsePayload(caps) ==
    Obj(<<KV("ucp", Obj(<<KV("capabilities", Obj(caps))>>)),
          KV("id", Str("1"))>>)
RequestPayload ==
    Obj(<<KV("meta", Obj(<<KV("profile", Str("profile.json"))>>)),
          KV("checkout", Obj(<<KV("id", Str("1"))>>))>>)
EnvelopeWithoutPayload ==
    Obj(<<KV("meta", Obj(<<KV("profile", Str("profile.json"))>>))>>)
PlainPayload == Obj(<<KV("name", Str("test"))>>)

BadSchema ==
    Obj(<<TypeObject, PropsOf(<<KV("id", Annotated("ucp_request", Num("5")))>>)>>)
RefSchema ==
    Obj(<<TypeObject,
          PropsOf(<<KV("kind", Obj(<<KV("$ref", Str("types.json"))>>)),
                    KV("self", Obj(<<KV("$ref", Str("#"))>>))>>)>>)
MissingRefSchema ==
    Obj(<<TypeObject,
          PropsOf(<<KV("kind", Obj(<<KV("$ref", Str("missing.json"))>>))>>)>>)

FileNotFound == Failed(3, "FileNotFound")
InvalidJson == Failed(2, "InvalidJson")

PayloadFiles ==
    {ResponsePayload(CheckoutOnly), ResponsePayload(OneExtension),
     ResponsePayload(WithExtensions), ResponsePayload(UnknownParentCaps),
     ResponsePayload(NoRootCaps), ResponsePayload(TwoRootsCaps),
     ResponsePayload(<<>>), RequestPayload, EnvelopeWithoutPayload}
SchemaFiles == {CheckoutSchema, BadSchema, RefSchema, MissingRefSchema}

ResolveSources ==
    {FileNotFound, InvalidJson}
    \cup {Loaded(v) : v \in PayloadFiles \cup SchemaFiles}
ComposeSources ==
    {FileNotFound, InvalidJson}
    \cup {Loaded(v) : v \in PayloadFiles \cup {CheckoutSchema}}
ValidateSources ==
    {FileNotFound}
    \cup {Loaded(v) : v \in {PlainPayload, ResponsePayload(CheckoutOnly),
                             ResponsePayload(WithExtensions), ResponsePayload(<<>>),
                             RequestPayload, EnvelopeWithoutPayload}}
NoSchemaSource == Failed(0, "")
SchemaSources ==
    {FileNotFound} \cup {Loaded(v) : v \in {CheckoutSchema, BadSchema, MissingRefSchema}}
Profiles ==
    {Failed(3, "FetchFailed"), capabilities_of(Obj(CheckoutOnly)),
     capabilities_of(Obj(WithExtensions))}
Unreachables == {{}, {"discount.json"}}

\* What the argument parser lets through (the #[arg] attributes):
\* --request and --response exclude each other, so do --schema and
\* --profile, and --schema-remote-base requires --schema-local-base.
ClapAccepts(c) ==
    /\ ~(c.request /\ c.response)
    /\ ~(c.schema /\ c.profile)
    /\ c.schema_remote_base => c.schema_local_base
    /\ c.write_fails => c.output
    /\ ~c.schema => c.schema_source = NoSchemaSource
    /\ c.schema => c.schema_source # NoSchemaSource

ResolveCommands ==
    {c \in [command : {"run_resolve"}, request : BOOLEAN, response : BOOLEAN,
            op : {"create"}, bundle : BOOLEAN, schema_local_base : BOOLEAN,
            schema_remote_base : BOOLEAN, schema : {FALSE}, profile : {FALSE},
            json_output : {FALSE}, strict : BOOLEAN, output : BOOLEAN,
            write_fails : BOOLEAN, source : ResolveSources,
            schema_source : {NoSchemaSource}, profile_caps : Profiles,
            unreachable : Unreachables, valid : {TRUE}] : ClapAccepts(c)}
ComposeCommands ==
    {c \in [command : {"run_compose"}, request : {FALSE}, response : {FALSE},
            op : {""}, bundle : {FALSE}, schema_local_base : BOOLEAN,
            schema_remote_base : BOOLEAN, schema : {FALSE}, profile : {FALSE},
            json_output : {FALSE}, strict : {FALSE}, output : BOOLEAN,
            write_fails : BOOLEAN, source : ComposeSources,
            schema_source : {NoSchemaSource}, profile_caps : Profiles,
            unreachable : Unreachables, valid : {TRUE}] : ClapAccepts(c)}
ValidateCommands ==
    {c \in [command : {"run_validate"}, request : BOOLEAN, response : BOOLEAN,
            op : {"create"}, bundle : {FALSE}, schema_local_base : BOOLEAN,
            schema_remote_base : BOOLEAN, schema : BOOLEAN, profile : BOOLEAN,
            json_output : BOOLEAN, strict : {FALSE}, output : {FALSE},
            write_fails : {FALSE}, source : ValidateSources,
            schema_source : SchemaSources \cup {NoSchemaSource},
            profile_caps : Profiles, unreachable : Unreachables,
            valid : BOOLEAN] : ClapAccepts(c)}

CliInit ==
    /\ pc = "start"
    /\ result = NoResult
    /\ vis = NoVis
    /\ schema = Null
    /\ prop = Null
    /\ cmd \in ResolveCommands \cup ComposeCommands \cup ValidateCommands
    /\ call = cmd.command
    /\ requested = cmd.op
    /\ options = with_strict(ResolveOptions_new("Request", requested), cmd.strict)
    /\ outcome = NoOut

RunResolve ==
    /\ pc = "start"
    /\ call = "run_resolve"
    /\ outcome' = run_resolve(cmd, outcome)
    /\ pc' = "done"
    /\ UNCHANGED <<call, schema, prop, requested, options, result, vis, cmd>>

RunCompose ==
    /\ pc = "start"
    /\ call = "run_compose"
    /\ outcome' = run_compose(cmd, outcome)
    /\ pc' = "done"
    /\ UNCHANGED <<call, schema, prop, requested, options, result, vis, cmd>>

RunValidate ==
    /\ pc = "start"
    /\ call = "run_validate"
    /\ outcome' = run_validate(cmd, outcome)
    /\ pc' = "done"
    /\ UNCHANGED <<call, schema, prop, requested, options, result, vis, cmd>>

CliNext == RunResolve \/ RunCompose \/ RunValidate

CliSpec == CliInit /\ [][CliNext]_vars

(* ---------------------------------------------------------------------- *)
(* Bundling: one call of bundle_refs on a root document                    *)
(* ---------------------------------------------------------------------- *)
AddressSchema == get(get(CommonSchema, "$defs"), "address")
RefNode(text) == Obj(<<KV("$ref", Str(text))>>)

\* The `$defs` of the root document.
RootDefs ==
    {<<>>,
     <<KV("$defs", Obj(<<KV("inner", AddressSchema)>>))>>,
     <<KV("$defs", Obj(<<KV("inner", RefNode("common.json#/$defs/address"))>>))>>,
     <<KV("$defs", Obj(<<KV("inner", Plain), KV("loop", RefNode("#/$defs/loop"))>>))>>}

\* Where the root document holds its reference.
RefPositions == {"property", "sibling", "allOf", "twice"}
RefAt(position, text) ==
    CASE position = "property" -> <<KV("p", RefNode(text))>>
      [] position = "sibling" ->
             <<KV("p", Obj(<<KV("$ref", Str(text)), KV("description", Str("d"))>>))>>
      [] position = "allOf" ->
             <<KV("p", Obj(<<KV("allOf", Arr(<<RefNode(text)>>))>>))>>
      [] OTHER -> <<KV("p", RefNode(text)), KV("q", RefNode(text))>>

RefTexts ==
    {"#", "#/$defs/inner", "#/$defs/loop", "#/$defs/gone", "#/properties",
     "types.json", "node.json", "node.json#", "common.json",
     "common.json#/$defs/address", "common.json#/$defs/gone", "wrapper.json",
     "a.json", "chain.json", "missing.json"}
RootDocument(defs, position, text) ==
    Obj(defs \o <<TypeObject, PropsOf(RefAt(position, text))>>)
RootDocuments ==
    {RootDocument(defs, position, text) :
        defs \in RootDefs, position \in RefPositions, text \in RefTexts}
BundleUnreachables == {{}, {"common.json"}, {"b.json"}}

BundleInit ==
    /\ pc = "start"
    /\ call = "bundle_refs"
    /\ schema \in RootDocuments
    /\ cmd \in {[command |-> "bundle_refs", unreachable |-> u] : u \in BundleUnreachables}
    /\ result = NoResult
    /\ vis = NoVis
    /\ prop = Null
    /\ requested = "create"
    /\ options = with_strict(ResolveOptions_new("Request", requested), FALSE)
    /\ outcome = NoOut

Bundle ==
    /\ pc = "start"
    /\ call = "bundle_refs"
    /\ result' = bundle_refs(schema, cmd)
    /\ pc' = "done"
    /\ UNCHANGED <<call, schema, prop, requested, options, vis, cmd, outcome>>

BundleNext == Bundle

BundleSpec == BundleInit /\ [][BundleNext]_vars

(* ---------------------------------------------------------------------- *)
(* Vocabulary of the properties                                            *)
(* ---------------------------------------------------------------------- *)
Resolved == pc = "done" /\ call = "resolve"
ResolvedOk == Resolved /\ result.ok
Looked == pc = "done" /\ call = "get_visibility"

NoDuplicates(sq) == \A a, b \in 1..Len(sq) : sq[a] = sq[b] => a = b
Count(sq, x) == Cardinality({a \in 1..Len(sq) : sq[a] = x})

RECURSIVE Flatten(_)
Flatten(seqs) ==
    IF seqs = <<>> THEN <<>> ELSE Head(seqs) \o Flatten(Tail(seqs))

\* The branches of an allOf that annotate `name` under `key`, and the
\* annotation of the last of them.
Annotating(branches, key, name) ==
    {j \in 1..Len(branches) :
        /\ has_props(branches[j])
        /\ has(get(branches[j], "properties"), name)
        /\ has(get(get(branches[j], "properties"), name), key)}

LastAnnotation(branches, key, name) ==
    LET js == Annotating(branches, key, name)
        j == CHOOSE x \in js : \A y \in js : y <= x
    IN  get(get(get(branches[j], "properties"), name), key)

\* A branch with the last annotation of each name written onto every property
\* object of that name that does not carry `key` itself.
AsIfAnnotated(branch, branches, key) ==
    IF ~has_props(branch) THEN branch
    ELSE LET props == get(branch, "properties")
             entry(e) ==
                 IF /\ is_object(e.v)
                    /\ ~contains_key(e.v, key)
                    /\ Annotating(branches, key, e.k) # {}
                 THEN KV(e.k, insert(e.v, key, LastAnnotation(branches, key, e.k)))
                 ELSE e
         IN  insert(branch, "properties",
                    [props EXCEPT !.kv = [j \in 1..Len(props.kv) |-> entry(props.kv[j])]])

\* The object nodes resolve_object rewrites, each paired with its output node:
\* a sequence of [i, o, path], following properties (kept ones), definitions,
\* composition branches (allOf branches as annotated by propagation), and
\* every other object- or array-valued key.
RECURSIVE Pairs(_, _, _, _)
RECURSIVE PairsIn(_, _, _, _, _)
PairsIn(kv, i, o, key, path) ==
    IF kv = <<>> THEN <<>>
    ELSE LET k == Head(kv).k
             v == Head(kv).v
             named(m, om) ==
                 Flatten([j \in 1..Len(m.kv) |->
                     IF has(om, m.kv[j].k)
                     THEN Pairs(m.kv[j].v, get(om, m.kv[j].k), key,
                                path \o <<k, m.kv[j].k>>)
                     ELSE <<>>])
             here ==
                 IF k \in UCP_ANNOTATIONS \/ k = "required" \/ ~has(o, k) THEN <<>>
                 ELSE IF k \in {"properties", "$defs", "definitions"} /\ is_object(v)
                 THEN named(v, get(o, k))
                 ELSE IF k = "allOf" /\ is_array(v) /\ is_array(get(o, k))
                 THEN Flatten([j \in 1..Len(v.kv) |->
                          Pairs(AsIfAnnotated(v.kv[j].v, Items(v), key),
                                get(o, k).kv[j].v, key,
                                path \o <<k, ToString(j - 1)>>)])
                 ELSE Pairs(v, get(o, k), key, Append(path, k))
         IN  here \o PairsIn(Tail(kv), i, o, key, path)

Pairs(i, o, key, path) ==
    IF is_object(i) /\ is_object(o)
    THEN <<[i |-> i, o |-> o, path |-> path]>> \o PairsIn(i.kv, i, o, key, path)
    ELSE IF is_array(i) /\ is_array(o) /\ Len(i.kv) = Len(o.kv)
    THEN Flatten([j \in 1..Len(i.kv) |->
             Pairs(i.kv[j].v, o.kv[j].v, key, Append(path, ToString(j - 1)))])
    ELSE <<>>

NodePairs == Pairs(schema, result.val, annotation_key(options.direction), <<>>)

\* The declared properties of an input node, and the visibility of one.
Declared(i) ==
    IF has_props(i) THEN {e.k : e \in {get(i, "properties").kv[j] :
                                         j \in 1..Len(get(i, "properties").kv)}}
    ELSE {}
VisibilityOf(i, name) ==
    get_visibility(get(get(i, "properties"), name), options.direction,
                   options.operation, <<>>).vis
OutProps(o) == IF has_props(o) THEN Declared(o) ELSE {}

(* ---------------------------------------------------------------------- *)
(* C1: annotations are stripped                                            *)
(* ---------------------------------------------------------------------- *)
\* Some object key at any depth of v is ucp_request or ucp_response.
RECURSIVE AnyAnnotationKey(_)
AnyAnnotationKey(v) ==
    \E j \in 1..Len(v.kv) :
        \/ is_object(v) /\ v.kv[j].k \in UCP_ANNOTATIONS
        \/ AnyAnnotationKey(v.kv[j].v)

\* Some schema node of v carries ucp_request or ucp_response as a keyword:
\* the entries of a properties / $defs / definitions mapping are names, not
\* keywords, and the walk continues below each of them.
RECURSIVE AnnotatedNode(_)
AnnotatedNode(v) ==
    \E j \in 1..Len(v.kv) :
        LET k == v.kv[j].k
            x == v.kv[j].v
        IN  \/ is_object(v) /\ k \in UCP_ANNOTATIONS
            \/ IF is_object(v) /\ k \in {"properties", "$defs", "definitions"}
                  /\ is_object(x)
               THEN \E n \in 1..Len(x.kv) : AnnotatedNode(x.kv[n].v)
               ELSE AnnotatedNode(x)

\* C1 as stated: after a successful resolve the returned value has no object
\* key named ucp_request or ucp_response at any depth.
C1_NoAnnotationKeyAtAnyDepth == ResolvedOk => ~AnyAnnotationKey(result.val)

\* C1 as amended: after a successful resolve no schema node of the returned
\* value carries ucp_request or ucp_response; the two names remain only as names
\* of properties or definitions.
C1_NoAnnotationOnSchemaNodes == ResolvedOk => ~AnnotatedNode(result.val)

\* An annotated property was kept and came out of a successful resolve.
C1_Witness ==
    /\ ResolvedOk
    /\ LET ps == NodePairs
       IN  \E n \in 1..Len(ps) :
               /\ ps[n].path # <<>>
               /\ \E k \in UCP_ANNOTATIONS : contains_key(ps[n].i, k)

(* ---------------------------------------------------------------------- *)
(* C2: Omit removes the property and its `required` entry                  *)
(* ---------------------------------------------------------------------- *)
\* C2: after a successful resolve, a property whose visibility is Omit is in
\* neither `properties` nor `required` of the output object.
C2_OmitRemoves ==
    ResolvedOk =>
        LET ps == NodePairs
        IN  \A n \in 1..Len(ps) :
                \A name \in Declared(ps[n].i) :
                    VisibilityOf(ps[n].i, name) = "omit" =>
                        /\ name \notin OutProps(ps[n].o)
                        /\ ~SeqContains(required_names(ps[n].o), name)

\* An omitted property that the input listed in `required`.
C2_Witness ==
    /\ ResolvedOk
    /\ LET ps == NodePairs
       IN  \E n \in 1..Len(ps) :
               \E name \in Declared(ps[n].i) :
                   /\ VisibilityOf(ps[n].i, name) = "omit"
                   /\ SeqContains(required_names(ps[n].i), name)

(* ---------------------------------------------------------------------- *)
(* C3: the `required` arrays of the output                                 *)
(* ---------------------------------------------------------------------- *)
\* The input `required` entries minus the properties resolved to Omit or
\* Optional, followed by the properties resolved to Required not yet listed.
RECURSIVE RequiredAfter(_, _, _)
RequiredAfter(names, i, req) ==
    IF names = <<>> THEN req
    ELSE LET name == Head(names)
             w == VisibilityOf(i, name)
         IN  RequiredAfter(Tail(names), i,
                 IF w \in {"omit", "optional"} THEN retain_ne(req, name)
                 ELSE IF w = "required" /\ ~SeqContains(req, name)
                 THEN Append(req, name)
                 ELSE req)

ExpectedRequired(i) ==
    RequiredAfter(IF has_props(i) THEN Keys(get(i, "properties")) ELSE <<>>, i,
                  required_names(i))

\* C3 as stated: every `required` array of the output has no duplicates and
\* names only keys of the sibling `properties`.
C3_RequiredNamesSiblingProperties ==
    ResolvedOk =>
        LET ps == NodePairs
        IN  \A n \in 1..Len(ps) :
                LET o == ps[n].o
                    req == required_names(o)
                IN  has(o, "required") =>
                        /\ NoDuplicates(req)
                        /\ \A a \in 1..Len(req) : req[a] \in OutProps(o)

\* C3 as amended: every `required` array of the output is the input array
\* minus the properties resolved to Omit or Optional plus the properties
\* resolved to Required; it has no duplicates when the input array had none,
\* and a name in it is a kept property or a name the input listed without
\* declaring it.
C3_RequiredFollowsInput ==
    ResolvedOk =>
        LET ps == NodePairs
        IN  \A n \in 1..Len(ps) :
                LET i == ps[n].i
                    o == ps[n].o
                    req == required_names(o)
                IN  /\ req = ExpectedRequired(i)
                    /\ has(o, "required") => get(o, "required") = StrArr(req)
                    /\ NoDuplicates(required_names(i)) => NoDuplicates(req)
                    /\ \A a \in 1..Len(req) :
                           IF req[a] \in Declared(i)
                           THEN VisibilityOf(i, req[a]) \in {"required", "include"}
                           ELSE SeqContains(required_names(i), req[a])

\* An output `required` that keeps an undeclared name next to a declared one
\* and has gained a Required property.
C3_Witness ==
    /\ ResolvedOk
    /\ LET ps == NodePairs
       IN  \E n \in 1..Len(ps) :
               LET i == ps[n].i
                   req == required_names(ps[n].o)
               IN  /\ \E a \in 1..Len(req) : req[a] \notin Declared(i)
                   /\ \E a \in 1..Len(req) :
                          /\ req[a] \in Declared(i)
                          /\ ~SeqContains(required_names(i), req[a])

(* ---------------------------------------------------------------------- *)
(* C4: monotonicity                                                        *)
(* ---------------------------------------------------------------------- *)
\* The allOf arrays of the input that resolve can reach, each with the path of
\* its `allOf` key: the walk follows every key except the annotation keys,
\* skips the properties resolved to Omit, and sees the branches of an allOf as
\* propagation annotates them.
RECURSIVE AllOfs(_, _, _)
AllOfs(v, key, path) ==
    IF is_object(v)
    THEN Flatten([j \in 1..Len(v.kv) |->
             LET k == v.kv[j].k
                 x == v.kv[j].v
             IN  IF k \in UCP_ANNOTATIONS THEN <<>>
                 ELSE IF k = "properties" /\ is_object(x)
                 THEN Flatten([n \in 1..Len(x.kv) |->
                          IF VisibilityOf(v, x.kv[n].k) = "omit" THEN <<>>
                          ELSE AllOfs(x.kv[n].v, key, path \o <<k, x.kv[n].k>>)])
                 ELSE IF k = "allOf" /\ is_array(x)
                 THEN <<[branches |-> Items(x), path |-> Append(path, k)]>>
                      \o Flatten([n \in 1..Len(x.kv) |->
                             AllOfs(AsIfAnnotated(x.kv[n].v, Items(x), key), key,
                                    path \o <<k, ToString(n - 1)>>)])
                 ELSE AllOfs(x, key, Append(path, k))])
    ELSE IF is_array(v)
    THEN Flatten([j \in 1..Len(v.kv) |->
             AllOfs(v.kv[j].v, key, Append(path, ToString(j - 1)))])
    ELSE <<>>

Sites == AllOfs(schema, annotation_key(options.direction), <<>>)

\* Branch b lists x in its own `required`.
Lists(branches, b, x) == SeqContains(required_names(branches[b]), x)

\* Branch e annotates x under `key` with a visibility that resolves to Omit
\* or Optional for the current operation.
Weakens(branches, e, x, key) ==
    /\ e \in Annotating(branches, key, x)
    /\ LET v == get_visibility_from_annotation(
                    get(get(get(branches[e], "properties"), x), key),
                    options.operation, <<>>)
       IN  v.ok /\ v.vis \in {"omit", "optional"}

\* Branch b lists x in `required` and declares it as an object without the
\* annotation, and the annotation collected for x (the last branch's) resolves
\* to Omit or Optional: the resolved visibility is the result.
Weakened(branches, b, x, key) ==
    IF /\ Lists(branches, b, x)
       /\ has_props(branches[b])
       /\ has(get(branches[b], "properties"), x)
       /\ is_object(get(get(branches[b], "properties"), x))
       /\ ~contains_key(get(get(branches[b], "properties"), x), key)
       /\ Annotating(branches, key, x) # {}
    THEN LET v == get_visibility_from_annotation(
                      LastAnnotation(branches, key, x), options.operation, <<>>)
         IN  IF v.ok /\ v.vis \in {"omit", "optional"} THEN v.vis ELSE ""
    ELSE ""

BranchNames(branches) ==
    UNION {Declared(branches[b]) : b \in 1..Len(branches)}
    \cup UNION {{required_names(branches[b])[a] :
                    a \in 1..Len(required_names(branches[b]))} :
                  b \in 1..Len(branches)}

\* Every annotation under `key` at any depth of v is one get_visibility
\* accepts, and no allOf at any depth of v has a type conflict.
RECURSIVE WellFormed(_, _)
WellFormed(v, key) ==
    /\ is_object(v) /\ has(v, key) =>
           get_visibility_from_annotation(get(v, key), options.operation, <<>>).ok
    /\ is_object(v) /\ has(v, "allOf") /\ is_array(get(v, "allOf")) =>
           validate_allof_types(Items(get(v, "allOf")), <<>>).ok
    /\ \A j \in 1..Len(v.kv) : WellFormed(v.kv[j].v, key)

RECURSIVE At(_, _)
At(v, path) ==
    IF path = <<>> THEN v
    ELSE IF is_object(v) THEN At(get(v, Head(path)), Tail(path))
    ELSE At(v.kv[CHOOSE j \in 1..Len(v.kv) : ToString(j - 1) = Head(path)].v,
            Tail(path))

\* What resolve returns for one branch resolved on its own: the resolved
\* value, stripped when the allOf lies below a property, closed as a
\* composition branch under strict.
BranchAlone(branch, path) ==
    LET r == resolve_value(branch, options, path)
        stripped == IF SeqContains(path, "properties")
                    THEN strip_annotations(r.val) ELSE r.val
    IN  IF options.strict
        THEN close_additional_properties_inner(stripped, TRUE)
        ELSE stripped

\* C5: in every allOf resolve reaches, the annotation collected for a name is
\* that of the last branch annotating it, and names no branch annotates have
\* none; after a successful resolve every output branch is the branch resolved
\* as if each of its unannotated properties carried the collected annotation,
\* so a property whose collected annotation resolves to Omit is gone from every
\* branch that declared it without an annotation.
C5_LastWriterPropagates ==
    Resolved =>
        LET key == annotation_key(options.direction)
            ss == Sites
        IN  \A n \in 1..Len(ss) :
                LET branches == ss[n].branches
                    merged == collect_allof_annotations(branches, key)
                IN  /\ \A x \in BranchNames(branches) :
                           IF Annotating(branches, key, x) = {}
                           THEN ~contains_key(merged, x)
                           ELSE /\ contains_key(merged, x)
                                /\ get(merged, x) = LastAnnotation(branches, key, x)
                    /\ result.ok =>
                           LET out == At(result.val, ss[n].path)
                           IN  /\ is_array(out)
                               /\ Len(out.kv) = Len(branches)
                               /\ \A b \in 1..Len(branches) :
                                      LET as_if == AsIfAnnotated(branches[b], branches, key)
                                      IN  /\ out.kv[b].v =
                                                 BranchAlone(as_if,
                                                     Append(ss[n].path, ToString(b - 1)))
                                          /\ \A x \in Declared(as_if) :
                                                 VisibilityOf(as_if, x) = "omit" =>
                                                     x \notin OutProps(out.kv[b].v)

\* An earlier branch declares a field without an annotation, a later branch
\* omits it, and the field is gone from the earlier branch of the output; and
\* two branches annotated the same name differently.
C5_Witness ==
    /\ ResolvedOk
    /\ LET key == annotation_key(options.direction)
           ss == Sites
       IN  \E n \in 1..Len(ss) : \E b, e \in 1..Len(ss[n].branches) :
               \E x \in Declared(ss[n].branches[b]) :
                   /\ b < e
                   /\ ~has(get(get(ss[n].branches[b], "properties"), x), key)
                   /\ Weakens(ss[n].branches, e, x, key)
                   /\ VisibilityOf(AsIfAnnotated(ss[n].branches[b],
                                                 ss[n].branches, key), x) = "omit"
                   /\ x \notin OutProps(At(result.val, ss[n].path).kv[b].v)

\* Two branches annotate the same name differently and the later one wins.
C5_WitnessLastWriter ==
    /\ ResolvedOk
    /\ LET key == annotation_key(options.direction)
           ss == Sites
       IN  \E n \in 1..Len(ss) : \E b, e \in 1..Len(ss[n].branches) :
               \E x \in Declared(ss[n].branches[b]) :
                   /\ b < e
                   /\ {b, e} \subseteq Annotating(ss[n].branches, key, x)
                   /\ get(get(get(ss[n].branches[b], "properties"), x), key)
                          # LastAnnotation(ss[n].branches, key, x)

(* ---------------------------------------------------------------------- *)
(* C6: the visibility of a kept property decides its place in `required`   *)
(* ---------------------------------------------------------------------- *)
\* C6: after a successful resolve, every declared property whose visibility is
\* not Omit stays in `properties` of the output object, and its name is in the
\* output `required` exactly once when Required, not at all when Optional, and
\* as in the input `required` when Include.
C6_VisibilityDecidesRequired ==
    ResolvedOk =>
        LET ps == NodePairs
        IN  \A n \in 1..Len(ps) :
                LET i == ps[n].i
                    o == ps[n].o
                IN  \A name \in Declared(i) :
                        LET w == VisibilityOf(i, name)
                        IN  w # "omit" =>
                                /\ name \in OutProps(o)
                                /\ w = "required" =>
                                       Count(required_names(o), name) = 1
                                /\ w = "optional" =>
                                       Count(required_names(o), name) = 0
                                /\ w = "include" =>
                                       Count(required_names(o), name)
                                           = Count(required_names(i), name)

(* ---------------------------------------------------------------------- *)
(* C7: when the output carries a `required` key                            *)
(* ---------------------------------------------------------------------- *)
\* Every declared property of i resolves to Omit, and `required` names
\* declared properties only.
FullyOmitted(i) ==
    /\ has_props(i)
    /\ \A name \in Declared(i) : VisibilityOf(i, name) = "omit"
    /\ \A a \in 1..Len(required_names(i)) : required_names(i)[a] \in Declared(i)

\* C7: after a successful resolve an output object has a `required` key
\* exactly when its recomputed list is non-empty or the input object had the
\* key; when every property is omitted, the required ones included, the
\* output has "required": [] and "properties": {}.
C7_RequiredKeyEmitted ==
    ResolvedOk =>
        LET ps == NodePairs
        IN  \A n \in 1..Len(ps) :
                LET i == ps[n].i
                    o == ps[n].o
                IN  /\ has(o, "required") <=>
                           (ExpectedRequired(i) # <<>> \/ has(i, "required"))
                    /\ has(i, "required") /\ FullyOmitted(i) =>
                           /\ get(o, "required") = StrArr(<<>>)
                           /\ get(o, "properties") = Obj(<<>>)

\* An object whose properties are all omitted and whose non-empty `required`
\* named them: the output keeps both keys, empty.
C7_Witness ==
    /\ ResolvedOk
    /\ LET ps == NodePairs
       IN  \E n \in 1..Len(ps) :
               /\ FullyOmitted(ps[n].i)
               /\ required_names(ps[n].i) # <<>>
               /\ get(ps[n].o, "required") = StrArr(<<>>)
               /\ get(ps[n].o, "properties") = Obj(<<>>)

(* ---------------------------------------------------------------------- *)
(* C8: transition metadata on the resolved property                        *)
(* ---------------------------------------------------------------------- *)
\* The kept properties whose annotation resolved to a transition descriptor:
\* [ip, op, t] with the input property, the output property and the
\* descriptor.
Transitioned ==
    LET ps == NodePairs
    IN  Flatten([n \in 1..Len(ps) |->
            IF ~has_props(ps[n].i) THEN <<>>
            ELSE LET props == get(ps[n].i, "properties")
                     looked(j) == get_visibility(props.kv[j].v, options.direction,
                                                 options.operation, <<>>)
                 IN  Flatten([j \in 1..Len(props.kv) |->
                         IF looked(j).transition.some /\ looked(j).vis # "omit"
                         THEN <<[ip |-> props.kv[j].v,
                                 op |-> get(get(ps[n].o, "properties"), props.kv[j].k),
                                 t |-> looked(j).transition]>>
                         ELSE <<>>])])

TransitionObject(t) ==
    Obj(<<KV("from", Str(t.from)), KV("to", Str(t.to)),
          KV("description", Str(t.description))>>)

\* C8 as stated: the resolved property carries x-ucp-schema-transition equal
\* to {from, to, description} of the descriptor, and has deprecated: true if
\* and only if the descriptor's `to` is "omit".
C8_DeprecatedIffToOmit ==
    ResolvedOk =>
        LET ts == Transitioned
        IN  \A n \in 1..Len(ts) :
                /\ get(ts[n].op, "x-ucp-schema-transition") = TransitionObject(ts[n].t)
                /\ (has(ts[n].op, "deprecated")
                       /\ get(ts[n].op, "deprecated") = Bool(TRUE))
                   <=> ts[n].t.to = "omit"

\* C8 as amended: the resolved property carries x-ucp-schema-transition equal
\* to {from, to, description} of the descriptor; it has deprecated: true when
\* the descriptor's `to` is "omit", and otherwise its `deprecated` is whatever
\* the input property had, absent if it had none.
C8_DeprecatedSetWhenToOmit ==
    ResolvedOk =>
        LET ts == Transitioned
        IN  \A n \in 1..Len(ts) :
                /\ has(ts[n].op, "x-ucp-schema-transition")
                /\ get(ts[n].op, "x-ucp-schema-transition") = TransitionObject(ts[n].t)
                /\ IF ts[n].t.to = "omit"
                   THEN has(ts[n].op, "deprecated")
                        /\ get(ts[n].op, "deprecated") = Bool(TRUE)
                   ELSE /\ has(ts[n].op, "deprecated") <=> has(ts[n].ip, "deprecated")
                        /\ has(ts[n].ip, "deprecated") =>
                               get(ts[n].op, "deprecated") = get(ts[n].ip, "deprecated")

\* A kept property in transition to omit that had no `deprecated` and has
\* deprecated: true in the output.
C8_Witness ==
    /\ ResolvedOk
    /\ LET ts == Transitioned
       IN  /\ \E n \in 1..Len(ts) :
                  /\ ts[n].t.to = "omit"
                  /\ ~has(ts[n].ip, "deprecated")
                  /\ get(ts[n].op, "deprecated") = Bool(TRUE)

(* ---------------------------------------------------------------------- *)
(* C9, C10: what get_visibility accepts, and what resolve does with it     *)
(* ---------------------------------------------------------------------- *)
\* The properties resolve examines, each with its path: those declared by an
\* object the walk reaches; the walk follows every key except the annotation
\* keys, does not go below a property resolved to Omit, and sees the branches
\* of an allOf as propagation annotates them.
RECURSIVE Examined(_, _, _)
Examined(v, key, path) ==
    IF is_object(v)
    THEN Flatten([j \in 1..Len(v.kv) |->
             LET k == v.kv[j].k
                 x == v.kv[j].v
             IN  IF k \in UCP_ANNOTATIONS THEN <<>>
                 ELSE IF k = "properties" /\ is_object(x)
                 THEN Flatten([n \in 1..Len(x.kv) |->
                          <<[prop |-> x.kv[n].v, path |-> path \o <<k, x.kv[n].k>>]>>
                          \o (IF VisibilityOf(v, x.kv[n].k) \in {"omit", ""} THEN <<>>
                              ELSE Examined(x.kv[n].v, key,
                                            path \o <<k, x.kv[n].k>>))])
                 ELSE IF k = "allOf" /\ is_array(x)
                 THEN Flatten([n \in 1..Len(x.kv) |->
                          Examined(AsIfAnnotated(x.kv[n].v, Items(x), key), key,
                                   path \o <<k, ToString(n - 1)>>)])
                 ELSE Examined(x, key, Append(path, k))])
    ELSE IF is_array(v)
    THEN Flatten([j \in 1..Len(v.kv) |->
             Examined(v.kv[j].v, key, Append(path, ToString(j - 1)))])
    ELSE <<>>

ExaminedProps == Examined(schema, annotation_key(options.direction), <<>>)

LookAt(e) ==
    get_visibility(e.prop, options.direction, options.operation, e.path)

\* Every property declared in a `properties` mapping at any depth of v.
RECURSIVE Contained(_)
Contained(v) ==
    (IF is_object(v) /\ has_props(v)
     THEN {get(v, "properties").kv[j].v : j \in 1..Len(get(v, "properties").kv)}
     ELSE {})
    \cup UNION {Contained(v.kv[j].v) : j \in 1..Len(v.kv)}

\* The annotation of a property under the selected direction, the entry of
\* that annotation the operation selects, and the transition descriptor in it.
None == [t |-> "none", s |-> "", b |-> FALSE, kv |-> <<>>]
AnnotationOf(p) ==
    IF has(p, annotation_key(options.direction))
    THEN get(p, annotation_key(options.direction)) ELSE None
EntryOf(p) ==
    LET a == AnnotationOf(p)
    IN  IF is_object(a) /\ contains_key(a, options.operation)
        THEN get(a, options.operation) ELSE None
DescriptorOf(p) ==
    LET a == AnnotationOf(p)
        outer == IF EntryOf(p) # None
                 THEN (IF is_object(EntryOf(p)) THEN EntryOf(p) ELSE None)
                 ELSE IF is_object(a) /\ has(a, "transition")
                         /\ is_object(get(a, "transition"))
                 THEN get(a, "transition")
                 ELSE None
    IN  IF outer # None /\ has(outer, "transition")
           /\ is_object(get(outer, "transition"))
        THEN get(outer, "transition")
        ELSE outer

ValidDescriptor(d) ==
    /\ has(d, "description") /\ is_str(get(d, "description"))
    /\ get(d, "description").s # ""
    /\ has(d, "from") /\ is_str(get(d, "from"))
    /\ has(d, "to") /\ is_str(get(d, "to"))
    /\ get(d, "from").s \in Visibilities
    /\ get(d, "to").s \in Visibilities
    /\ get(d, "from").s # get(d, "to").s

\* C9: get_visibility on a property whose annotation selects a transition
\* descriptor succeeds exactly when the description is a non-empty string and
\* from and to are two distinct visibilities, and fails with
\* InvalidSchemaTransition otherwise; on success the visibility is `from` and
\* the descriptor's three fields are returned. resolve fails with the
\* InvalidSchemaTransition of a property it examines, and where it succeeds
\* every examined descriptor is valid and its property is kept or removed, and
\* listed in `required` or not, as `from` says.
C9_TransitionParsing ==
    /\ Looked /\ DescriptorOf(prop) # None =>
           LET d == DescriptorOf(prop)
           IN  /\ vis.ok <=> ValidDescriptor(d)
               /\ ~vis.ok =>
                      /\ vis.err.kind = "InvalidSchemaTransition"
                      /\ vis.err.path = (IF EntryOf(prop) # None
                                         THEN Append(TestPath, options.operation)
                                         ELSE TestPath)
               /\ vis.ok =>
                      /\ vis.vis = get(d, "from").s
                      /\ vis.transition =
                             SomeTransition(get(d, "from").s, get(d, "to").s,
                                            get(d, "description").s)
    /\ Looked /\ ~vis.ok /\ vis.err.kind = "InvalidSchemaTransition" =>
           DescriptorOf(prop) # None
    /\ Resolved =>
           LET es == ExaminedProps
           IN  /\ (\E n \in 1..Len(es) :
                      DescriptorOf(es[n].prop) # None
                      /\ ~ValidDescriptor(DescriptorOf(es[n].prop))) => ~result.ok
               /\ ~result.ok /\ result.err.kind = "InvalidSchemaTransition" =>
                      \E n \in 1..Len(es) :
                          /\ DescriptorOf(es[n].prop) # None
                          /\ ~ValidDescriptor(DescriptorOf(es[n].prop))
                          /\ result.err = LookAt(es[n]).err
    /\ ResolvedOk =>
           LET ps == NodePairs
           IN  \A n \in 1..Len(ps) :
                   \A name \in Declared(ps[n].i) :
                       LET d == DescriptorOf(get(get(ps[n].i, "properties"), name))
                       IN  d # None =>
                               /\ ValidDescriptor(d)
                               /\ VisibilityOf(ps[n].i, name) = get(d, "from").s
                               /\ get(d, "from").s = "omit" =>
                                      name \notin OutProps(ps[n].o)
                               /\ get(d, "from").s = "required" =>
                                      /\ name \in OutProps(ps[n].o)
                                      /\ SeqContains(required_names(ps[n].o), name)
                               /\ get(d, "from").s = "optional" =>
                                      /\ name \in OutProps(ps[n].o)
                                      /\ ~SeqContains(required_names(ps[n].o), name)

\* resolve kept a property in transition from required to omit and lists it in
\* `required`.
C9_Witness ==
    /\ ResolvedOk
    /\ LET ps == NodePairs
       IN  \E n \in 1..Len(ps) : \E name \in Declared(ps[n].i) :
               LET d == DescriptorOf(get(get(ps[n].i, "properties"), name))
               IN  /\ d # None
                   /\ get(d, "from") = Str("required")
                   /\ get(d, "to") = Str("omit")
                   /\ name \in OutProps(ps[n].o)
                   /\ ~SeqContains(required_names(ps[n].i), name)
                   /\ SeqContains(required_names(ps[n].o), name)

\* A property is malformed when its annotation, or the entry the operation
\* selects, is neither a string nor a mapping, or is a string that is not a
\* visibility; Malformed is the error get_visibility owes it at a path.
Malformed(p, path) ==
    LET a == AnnotationOf(p)
        e == EntryOf(p)
    IN  IF a = None THEN NoErr
        ELSE IF is_str(a)
        THEN (IF a.s \in Visibilities THEN NoErr ELSE UnknownVisibility(path, a.s))
        ELSE IF ~is_object(a) THEN InvalidAnnotationType(path, json_type_name(a))
        ELSE IF e = None THEN NoErr
        ELSE IF is_str(e)
        THEN (IF e.s \in Visibilities THEN NoErr ELSE UnknownVisibility(path, e.s))
        ELSE IF ~is_object(e)
        THEN InvalidAnnotationType(Append(path, options.operation),
                                   json_type_name(e))
        ELSE NoErr

KeysIgnoringCase(p) ==
    IF is_object(AnnotationOf(p))
    THEN {AnnotationOf(p).kv[j].k :
             j \in {n \in 1..Len(AnnotationOf(p).kv) :
                       to_lowercase(AnnotationOf(p).kv[n].k)
                           = to_lowercase(requested)}}
    ELSE {}

\* C11: the requested operation selects the operation entry of an annotation
\* whenever the two strings are equal ignoring letter case: get_visibility
\* returns what that entry says, and resolve returns what it returns for the
\* operation written in lower case.
C11_OperationIgnoresCase ==
    /\ Looked =>
           \A k \in KeysIgnoringCase(prop) :
               LET selected == operation_entry(get(AnnotationOf(prop), k), k, TestPath)
               IN  /\ vis.ok = selected.ok
                   /\ vis.vis = selected.vis
                   /\ vis.transition = selected.transition
                   /\ vis.err.kind = selected.err.kind
    /\ Resolved =>
           result = resolve(schema,
                        with_strict(ResolveOptions_new(options.direction,
                                        to_lowercase(requested)),
                                    options.strict))

(* ---------------------------------------------------------------------- *)
(* C12: type conflicts between the branches of an allOf                    *)
(* ---------------------------------------------------------------------- *)
\* The string-valued types the branches give the property x, in branch order.
RECURSIVE StringTypes(_, _)
StringTypes(branches, x) ==
    IF branches = <<>> THEN <<>>
    ELSE (IF /\ has_props(Head(branches))
             /\ has(get(Head(branches), "properties"), x)
             /\ has(get(get(Head(branches), "properties"), x), "type")
             /\ is_str(get(get(get(Head(branches), "properties"), x), "type"))
          THEN <<get(get(get(Head(branches), "properties"), x), "type").s>>
          ELSE <<>>)
         \o StringTypes(Tail(branches), x)

Conflicting(branches, x) ==
    \E a, b \in 1..Len(StringTypes(branches, x)) :
        StringTypes(branches, x)[a] # StringTypes(branches, x)[b]

\* The type of the earliest branch, and the first later type that differs.
BaseType(branches, x) == StringTypes(branches, x)[1]
ExtType(branches, x) ==
    LET ts == StringTypes(branches, x)
        a == CHOOSE n \in 1..Len(ts) :
                 ts[n] # ts[1] /\ \A m \in 1..(n - 1) : ts[m] = ts[1]
    IN  ts[a]

\* C12: when the branches of an allOf that resolve reaches give one property
\* differing string-valued types, resolve returns no schema, and where the
\* allOf is the first key of the schema the error is TypeConflict; a
\* TypeConflict is only ever returned for a property with differing
\* string-valued types, at the allOf's path, with the earliest branch's type as
\* base_type and the first differing later type as ext_type; array-valued
\* types take no part.
C12_TypeConflict ==
    Resolved =>
        LET ss == Sites
            conflict(n) == \E x \in BranchNames(ss[n].branches) :
                               Conflicting(ss[n].branches, x)
        IN  /\ (\E n \in 1..Len(ss) : conflict(n)) => ~result.ok
            /\ (/\ is_object(schema) /\ schema.kv # <<>>
                /\ schema.kv[1].k = "allOf" /\ is_array(schema.kv[1].v)
                /\ conflict(1))
               => result.err.kind = "TypeConflict"
            /\ ~result.ok /\ result.err.kind = "TypeConflict" =>
                   \E n \in 1..Len(ss) : \E x \in BranchNames(ss[n].branches) :
                       /\ Conflicting(ss[n].branches, x)
                       /\ result.err =
                              TypeConflict(ss[n].path \o <<"properties", x>>,
                                           BaseType(ss[n].branches, x),
                                           ExtType(ss[n].branches, x))

\* Three branches with three different string types: the conflict reported
\* is between the first and the second.
C12_Witness ==
    /\ Resolved
    /\ ~result.ok
    /\ result.err.kind = "TypeConflict"
    /\ LET ss == Sites
       IN  \E n \in 1..Len(ss) :
               /\ Len(StringTypes(ss[n].branches, "id")) = 3
               /\ StringTypes(ss[n].branches, "id")[3] # result.err.ext_type
               /\ StringTypes(ss[n].branches, "id")[3] # result.err.base_type
               /\ result.err.base_type = StringTypes(ss[n].branches, "id")[1]
               /\ result.err.ext_type = StringTypes(ss[n].branches, "id")[2]

(* ---------------------------------------------------------------------- *)
(* C13: strict closes the object-shaped nodes                              *)
(* ---------------------------------------------------------------------- *)
Compositions == {"allOf", "anyOf", "oneOf"}
ObjectShaped(n) ==
    /\ is_object(n)
    /\ \/ has(n, "type") /\ get(n, "type") = Str("object")
       \/ has(n, "properties")
Composed(n) == is_object(n) /\ \E k \in Compositions : has(n, k)
IsFalse(n, k) == has(n, k) /\ get(n, k) = Bool(FALSE)

\* Every schema node of v, each with whether it is a direct element of an
\* allOf / anyOf / oneOf array: the entries of properties, $defs and
\* definitions are nodes, and so is every other object below a keyword.
RECURSIVE SchemaNodes(_, _)
SchemaNodes(v, branch) ==
    IF is_object(v)
    THEN <<[node |-> v, branch |-> branch]>>
         \o Flatten([j \in 1..Len(v.kv) |->
                LET k == v.kv[j].k
                    x == v.kv[j].v
                IN  IF k \in {"properties", "$defs", "definitions"} /\ is_object(x)
                    THEN Flatten([n \in 1..Len(x.kv) |->
                             SchemaNodes(x.kv[n].v, FALSE)])
                    ELSE IF k \in Compositions /\ is_array(x)
                    THEN Flatten([n \in 1..Len(x.kv) |->
                             SchemaNodes(x.kv[n].v, TRUE)])
                    ELSE SchemaNodes(x, FALSE)])
    ELSE IF is_array(v)
    THEN Flatten([j \in 1..Len(v.kv) |-> SchemaNodes(v.kv[j].v, FALSE)])
    ELSE <<>>

\* The nodes the strict pass visits, each resolved node with the node
\* returned and whether it is a direct element of a composition array: the
\* values of properties, $defs and definitions, the objects under items,
\* additionalProperties and unevaluatedProperties, and the elements of
\* allOf / anyOf / oneOf.
RECURSIVE StrictPairs(_, _, _)
StrictPairs(pre, post, branch) ==
    IF ~is_object(pre) \/ ~is_object(post) THEN <<>>
    ELSE <<[pre |-> pre, post |-> post, branch |-> branch]>>
         \o Flatten([j \in 1..Len(pre.kv) |->
                LET k == pre.kv[j].k
                    x == pre.kv[j].v
                    y == get(post, k)
                IN  IF k \in {"properties", "$defs", "definitions"} /\ is_object(x)
                    THEN Flatten([n \in 1..Len(x.kv) |->
                             StrictPairs(x.kv[n].v, get(y, x.kv[n].k), FALSE)])
                    ELSE IF k \in {"items", "additionalProperties",
                                   "unevaluatedProperties"}
                    THEN StrictPairs(x, y, FALSE)
                    ELSE IF k \in Compositions /\ is_array(x)
                    THEN Flatten([n \in 1..Len(x.kv) |->
                             StrictPairs(x.kv[n].v, y.kv[n].v, TRUE)])
                    ELSE <<>>])

\* The resolved schema before the strict pass, paired with the result.
Unclosed == resolve_value(schema, options, <<>>).val
Visited == StrictPairs(Unclosed, result.val, FALSE)

\* The keyword the strict pass uses on a node.
ClosingKey(n) ==
    IF Composed(n) THEN "unevaluatedProperties" ELSE "additionalProperties"
VisitedKeys ==
    {"properties", "$defs", "definitions", "items", "additionalProperties",
     "unevaluatedProperties"} \cup Compositions

Closable(pair) ==
    ~pair.branch /\ (ObjectShaped(pair.pre) \/ Composed(pair.pre))

\* What the overwrite rule leaves under keyword key of a closable node.
Overwritten(pre, post, key) ==
    /\ ~has(pre, key) \/ get(pre, key).t = "bool" => IsFalse(post, key)
    /\ has(pre, key) /\ get(pre, key).t # "bool" =>
           has(post, key) /\ get(post, key) = get(pre, key)
SameUnder(pre, post, key) ==
    /\ has(post, key) <=> has(pre, key)
    /\ has(pre, key) => get(post, key) = get(pre, key)

\* C14 as stated: a closable node with allOf / anyOf / oneOf gets
\* unevaluatedProperties: false and keeps its additionalProperties as it was,
\* any other closable node gets additionalProperties: false; an absent value
\* or an existing true becomes false and an existing non-boolean value is
\* left unchanged.
C14_KeywordByShape ==
    ResolvedOk /\ options.strict =>
        LET vs == Visited
        IN  \A n \in 1..Len(vs) :
                Closable(vs[n]) =>
                    IF Composed(vs[n].pre)
                    THEN /\ Overwritten(vs[n].pre, vs[n].post,
                                        "unevaluatedProperties")
                         /\ SameUnder(vs[n].pre, vs[n].post,
                                      "additionalProperties")
                    ELSE Overwritten(vs[n].pre, vs[n].post,
                                     "additionalProperties")

\* The overwrite rule with a schema under the keyword kept in place and
\* closed in turn.
OverwrittenOrClosed(pre, post, key) ==
    /\ ~has(pre, key) \/ get(pre, key).t = "bool" => IsFalse(post, key)
    /\ has(pre, key) /\ get(pre, key).t # "bool" =>
           /\ has(post, key)
           /\ get(post, key) = close_additional_properties(get(pre, key))
ClosedUnder(pre, post, key) ==
    /\ has(post, key) <=> has(pre, key)
    /\ has(pre, key) =>
           get(post, key) = close_additional_properties(get(pre, key))

\* C14 as amended: the keyword is chosen by shape and an absent value or an
\* existing true becomes false, as stated; an existing non-boolean value is
\* never replaced, but a schema there is closed in turn as a node of its
\* own, and so is a schema under additionalProperties of a node with a
\* composition keyword. A closable node without composition keeps no other
\* trace: its unevaluatedProperties is treated the same way.
C14_KeywordByShapeClosedInTurn ==
    ResolvedOk /\ options.strict =>
        LET vs == Visited
        IN  \A n \in 1..Len(vs) :
                Closable(vs[n]) =>
                    IF Composed(vs[n].pre)
                    THEN /\ OverwrittenOrClosed(vs[n].pre, vs[n].post,
                                                "unevaluatedProperties")
                         /\ ClosedUnder(vs[n].pre, vs[n].post,
                                        "additionalProperties")
                    ELSE /\ OverwrittenOrClosed(vs[n].pre, vs[n].post,
                                                "additionalProperties")
                         /\ ClosedUnder(vs[n].pre, vs[n].post,
                                        "unevaluatedProperties")

\* Under strict a node with a composition keyword and unevaluatedProperties:
\* true came out with unevaluatedProperties: false and no
\* additionalProperties.
C14_Witness ==
    /\ ResolvedOk
    /\ options.strict
    /\ LET vs == Visited
       IN  \E n \in 1..Len(vs) :
               /\ Closable(vs[n])
               /\ Composed(vs[n].pre)
               /\ has(vs[n].pre, "unevaluatedProperties")
               /\ get(vs[n].pre, "unevaluatedProperties") = Bool(TRUE)
               /\ IsFalse(vs[n].post, "unevaluatedProperties")
               /\ ~has(vs[n].post, "additionalProperties")

(* ---------------------------------------------------------------------- *)
(* C15: composition branches stay open, what is nested in them is closed   *)
(* ---------------------------------------------------------------------- *)
ClosingKeys == {"additionalProperties", "unevaluatedProperties"}
HasFalse(n) == \E k \in ClosingKeys : IsFalse(n, k)

\* The nodes the strict pass visits inside a branch, the branch left out.
Within(pair) == Tail(StrictPairs(pair.pre, pair.post, TRUE))

\* The elements of the composition arrays of the properties of node n.
NestedBranches(n) ==
    IF ~(has(n, "properties") /\ is_object(get(n, "properties"))) THEN <<>>
    ELSE LET props == get(n, "properties").kv
         IN  Flatten([j \in 1..Len(props) |->
                 Flatten([c \in 1..3 |->
                     LET key == <<"allOf", "anyOf", "oneOf">>[c]
                     IN  IF is_object(props[j].v) /\ has(props[j].v, key)
                            /\ is_array(get(props[j].v, key))
                         THEN Items(get(props[j].v, key))
                         ELSE <<>>])])

\* The object-shaped nodes the pass visits inside a branch, not themselves
\* elements of a composition array, are closed by the rule of C14.
NestedClosed(pair) ==
    LET inner == Within(pair)
    IN  \A m \in 1..Len(inner) :
            Closable(inner[m]) =>
                OverwrittenOrClosed(inner[m].pre, inner[m].post,
                                    ClosingKey(inner[m].pre))

\* C15 as stated: a direct element of an allOf / anyOf / oneOf array comes
\* out with the additionalProperties and unevaluatedProperties it had, no
\* more and not changed; the object schemas nested in it (property values,
\* items, $defs) are closed, and so are the branches of a composition that a
\* property of the branch holds.
C15_BranchesOpenNestedClosed ==
    ResolvedOk /\ options.strict =>
        LET vs == Visited
        IN  \A n \in 1..Len(vs) :
                vs[n].branch =>
                    /\ \A k \in ClosingKeys : SameUnder(vs[n].pre, vs[n].post, k)
                    /\ NestedClosed(vs[n])
                    /\ LET nested == NestedBranches(vs[n].post)
                       IN  \A m \in 1..Len(nested) :
                               ObjectShaped(nested[m]) => HasFalse(nested[m])

\* C15 as amended: on a direct element of an allOf / anyOf / oneOf array the
\* strict pass never adds additionalProperties or unevaluatedProperties and
\* never replaces a value there; a schema under either keyword is closed in
\* turn as a node of its own. The object schemas nested in the branch through
\* property values, items and $defs are closed like any other node, and so
\* is a property that holds a composition (unevaluatedProperties: false);
\* the branches of that nested composition are again direct elements and
\* stay open.
C15_BranchesOpenNestedVisited ==
    ResolvedOk /\ options.strict =>
        LET vs == Visited
        IN  \A n \in 1..Len(vs) :
                vs[n].branch =>
                    /\ \A k \in ClosingKeys : ClosedUnder(vs[n].pre, vs[n].post, k)
                    /\ NestedClosed(vs[n])

\* Under strict an object-shaped branch without either keyword came out
\* without either keyword, holding a property whose object schema got
\* additionalProperties: false.
C15_Witness ==
    /\ ResolvedOk
    /\ options.strict
    /\ LET vs == Visited
       IN  \E n \in 1..Len(vs) :
               /\ vs[n].branch
               /\ ObjectShaped(vs[n].post)
               /\ \A k \in ClosingKeys : ~has(vs[n].post, k)
               /\ LET inner == Within(vs[n])
                  IN  \E m \in 1..Len(inner) :
                          /\ Closable(inner[m])
                          /\ ~has(inner[m].pre, "additionalProperties")
                          /\ IsFalse(inner[m].post, "additionalProperties")

(* ---------------------------------------------------------------------- *)
(* C16: the other direction's annotations do not influence the result      *)
(* ---------------------------------------------------------------------- *)
OtherKey(direction) ==
    CHOOSE k \in UCP_ANNOTATIONS : k # annotation_key(direction)

\* v with w written under every key named key, at any depth.
RECURSIVE ReplaceKeys(_, _, _)
ReplaceKeys(v, key, w) ==
    IF is_object(v) \/ is_array(v)
    THEN [v EXCEPT !.kv = [j \in 1..Len(v.kv) |->
             IF is_object(v) /\ v.kv[j].k = key THEN KV(key, w)
             ELSE KV(v.kv[j].k, ReplaceKeys(v.kv[j].v, key, w))]]
    ELSE v

\* v with w written under the keyword key of every schema node: the entries
\* of properties, $defs and definitions are schema nodes, their names are not
\* keywords.
RECURSIVE ReplaceAnnotations(_, _, _)
ReplaceAnnotations(v, key, w) ==
    IF is_object(v)
    THEN [v EXCEPT !.kv = [j \in 1..Len(v.kv) |->
             LET k == v.kv[j].k
                 x == v.kv[j].v
             IN  IF k = key THEN KV(key, w)
                 ELSE IF k \in {"properties", "$defs", "definitions"}
                         /\ is_object(x)
                 THEN KV(k, [x EXCEPT !.kv = [n \in 1..Len(x.kv) |->
                          KV(x.kv[n].k, ReplaceAnnotations(x.kv[n].v, key, w))]])
                 ELSE KV(k, ReplaceAnnotations(x, key, w))]]
    ELSE IF is_array(v)
    THEN [v EXCEPT !.kv = [j \in 1..Len(v.kv) |->
             KV(v.kv[j].k, ReplaceAnnotations(v.kv[j].v, key, w))]]
    ELSE v

\* Values put in place of the other direction's: a visibility and a value
\* of the wrong type.
OtherValues == {Str("omit"), Num("7")}

\* A property annotated for the other direction only.
OtherOnly(p) ==
    /\ is_object(p)
    /\ has(p, OtherKey(options.direction))
    /\ ~has(p, annotation_key(options.direction))

\* C16 as stated: two schemas that differ only in the values under the
\* other direction's keys, at any depth, resolve to the same result, value
\* or error; a property annotated only for the other direction has
\* visibility Include.
C16_OtherKeysIgnored ==
    /\ Resolved =>
           \A w \in OtherValues :
               result = resolve(ReplaceKeys(schema, OtherKey(options.direction), w),
                                options)
    /\ Looked =>
           /\ \A w \in OtherValues :
                  vis = get_visibility(
                            ReplaceKeys(prop, OtherKey(options.direction), w),
                            options.direction, options.operation, TestPath)
           /\ OtherOnly(prop) =>
                  vis.ok /\ vis.vis = "include" /\ vis.transition = NoTransition

\* C16 as amended: two schemas that differ only in the values of the other
\* direction's annotation keyword on schema nodes resolve to the same
\* result, value or error, and a property annotated only for the other
\* direction has visibility Include; a property or definition that is
\* itself named like the annotation is a schema, whose content does show in
\* the result.
C16_OtherAnnotationsIgnored ==
    /\ Resolved =>
           \A w \in OtherValues :
               result = resolve(ReplaceAnnotations(schema,
                                    OtherKey(options.direction), w), options)
    /\ Looked =>
           /\ \A w \in OtherValues :
                  vis = get_visibility(
                            ReplaceAnnotations(prop, OtherKey(options.direction), w),
                            options.direction, options.operation, TestPath)
           /\ OtherOnly(prop) =>
                  vis.ok /\ vis.vis = "include" /\ vis.transition = NoTransition

\* A property whose only annotation is `omit` for the other direction was
\* resolved and is in the output, and one was looked up.
C16_Witness ==
    \/ /\ ResolvedOk
       /\ has(schema, "properties")
       /\ has(get(schema, "properties"), "id")
       /\ OtherOnly(get(get(schema, "properties"), "id"))
       /\ get(get(get(schema, "properties"), "id"),
              OtherKey(options.direction)) = Str("omit")
       /\ has(get(result.val, "properties"), "id")
       /\ ~has(get(get(result.val, "properties"), "id"),
               OtherKey(options.direction))
    \/ /\ Looked
       /\ OtherOnly(prop)
       /\ get(prop, OtherKey(options.direction)) = Str("omit")
       /\ vis.vis = "include"

(* ---------------------------------------------------------------------- *)
(* C17: exit codes and --json output of validate                           *)
(* ---------------------------------------------------------------------- *)
Ran(command) == pc = "done" /\ call = command
FlagClash(c) == c.schema /\ (c.schema_local_base \/ c.schema_remote_base)

\* A line is a JSON object with a boolean `valid`.
Envelope(line) ==
    /\ line.kind = "json"
    /\ has(line.val, "valid")
    /\ get(line.val, "valid").t = "bool"
EnvelopeValid(line) == get(line.val, "valid").b

Rejected ==
    /\ outcome.exit = 2
    /\ outcome.direction = "None"
    /\ outcome.file = <<>>
    /\ \A i \in 1..Len(outcome.stdout) :
           /\ Envelope(outcome.stdout[i])
           /\ ~EnvelopeValid(outcome.stdout[i])
    /\ Len(outcome.stdout) + Len(outcome.stderr) = 1

\* C18: resolve --bundle on a self-describing payload, resolve with a base
\* flag on a plain schema, and validate with --schema and a base flag all
\* end with exit code 2 and no resolved or validated result.
C18_FlagsRejected ==
    /\ Ran("run_resolve") /\ cmd.source.ok =>
           /\ detect_direction(cmd.source.val) # "None" /\ cmd.bundle => Rejected
           /\ detect_direction(cmd.source.val) = "None"
              /\ (cmd.schema_local_base \/ cmd.schema_remote_base) => Rejected
    /\ Ran("run_validate") /\ FlagClash(cmd) => Rejected

\* resolve --bundle --request ran on a payload whose schemas compose, and
\* was rejected.
C18_Witness ==
    /\ Ran("run_resolve")
    /\ cmd.source = Loaded(ResponsePayload(CheckoutOnly))
    /\ cmd.unreachable = {}
    /\ cmd.bundle
    /\ cmd.request
    /\ Rejected

(* ---------------------------------------------------------------------- *)
(* C19: the direction the commands use                                     *)
(* ---------------------------------------------------------------------- *)
Inferred == IF cmd.source.ok THEN detect_direction(cmd.source.val) ELSE "None"
NoFlag == ~cmd.request /\ ~cmd.response

\* C19: a direction flag decides the direction whatever the input says; with
\* no flag the direction inferred from the input is used; resolve on a plain
\* schema with no flag ends with exit code 2 (unless the bundling asked for
\* fails first); validate with --schema or --profile, no flag and nothing to
\* infer uses Request.
C19_DirectionSelection ==
    /\ (Ran("run_resolve") \/ Ran("run_validate")) /\ outcome.direction # "None" =>
           /\ cmd.request => outcome.direction = "Request"
           /\ cmd.response => outcome.direction = "Response"
           /\ NoFlag /\ Inferred # "None" => outcome.direction = Inferred
           /\ NoFlag /\ Inferred = "None" =>
                  /\ call = "run_validate"
                  /\ cmd.schema \/ cmd.profile
                  /\ outcome.direction = "Request"
    /\ Ran("run_resolve") /\ cmd.source.ok /\ Inferred = "None" /\ NoFlag =>
           /\ outcome.direction = "None"
           /\ outcome.exit \in {2, 3}
           /\ ~cmd.bundle => outcome.exit = 2

(* ---------------------------------------------------------------------- *)
(* C20: the shape of the composed schema                                   *)
(* ---------------------------------------------------------------------- *)
\* The capabilities compose works on, and their schemas.
Composing ==
    IF Inferred = "Request" THEN cmd.profile_caps.val
    ELSE extract_capabilities(cmd.source.val).val
SchemasOf(caps) == [i \in 1..Len(caps) |-> Store[caps[i].schema_url]]

\* C20: compose on one root and n extensions prints the root schema itself
\* when n = 0 and otherwise {"allOf": [root, ext_1, ..., ext_n]}, the root
\* first and the extensions in capability order; never an allOf of a single
\* branch; the annotations are still there.
C20_ComposeShape ==
    Ran("run_compose") /\ outcome.exit = 0 /\ ~cmd.output =>
        LET composedOut == outcome.stdout[1].val
            root == SchemasOf(roots(Composing))[1]
            exts == SchemasOf(extensions(Composing))
        IN  /\ Len(exts) = 0 => composedOut = root
            /\ Len(exts) > 0 =>
                   /\ Keys(composedOut) = <<"allOf">>
                   /\ Items(get(composedOut, "allOf")) = <<root>> \o exts
            /\ has(composedOut, "allOf") => Len(get(composedOut, "allOf").kv) >= 2
            /\ AnyAnnotationKey(composedOut)

(* ---------------------------------------------------------------------- *)
(* C21: the references left after a bundle                                 *)
(* ---------------------------------------------------------------------- *)
Bundled == pc = "done" /\ call = "bundle_refs"

\* The texts of the `$ref`s of a document, at any depth.
RECURSIVE RefsIn(_)
RefsIn(v) ==
    (IF has(v, "$ref") /\ is_str(get(v, "$ref")) THEN {get(v, "$ref").s} ELSE {})
    \cup UNION {RefsIn(v.kv[i].v) : i \in 1..Len(v.kv)}

\* A reference text that is "#" or points at something inside the document.
Inside(text, doc) ==
    \/ text = "#"
    \/ /\ parse_ref(text).location = ""
       /\ resolve_pointer(doc, parse_ref(text).pointer).ok

\* The node of the root document that holds the reference, and after the
\* bundle what took its place.
Holder(doc) ==
    IF has(get(get(doc, "properties"), "p"), "allOf")
    THEN Items(get(get(get(doc, "properties"), "p"), "allOf"))[1]
    ELSE get(get(doc, "properties"), "p")
RootText == get(Holder(schema), "$ref").s

\* The content each reference stands for, its own references inlined.
Content(text) ==
    CASE text \in {"node.json", "node.json#"} -> NodeSchema
      [] text = "common.json" -> CommonSchema
      [] text \in {"common.json#/$defs/address", "#/$defs/inner"} -> AddressSchema
      [] text = "wrapper.json" ->
             Obj(<<KV("$defs", Obj(<<KV("inner", Plain)>>)), TypeObject,
                   PropsOf(<<KV("data", Plain)>>)>>)
      [] text = "chain.json" ->
             Obj(<<TypeObject, PropsOf(<<KV("next", AddressSchema)>>)>>)
      [] OTHER -> Plain

\* C21: after a successful bundle every `$ref` left in the output is "#" or
\* a pointer to a fragment inside the bundled document; external and
\* intra-document "#/..." references are replaced by their target content;
\* a "#" inside an inlined external document is left as it is.
C21_RemainingRefs ==
    Bundled /\ result.ok =>
        /\ \A text \in RefsIn(result.val) : Inside(text, result.val)
        /\ RefsIn(result.val) \subseteq {"#"}
        /\ RootText # "#" => Holder(result.val) = Content(RootText)
        /\ RootText = "#" => Holder(result.val) = Holder(schema)
        /\ RootText \in {"node.json", "node.json#"} => "#" \in RefsIn(Holder(result.val))

\* node.json, which refers to itself by "#", was inlined with its "#" kept;
\* wrapper.json was inlined with its "#/$defs/inner" replaced.
C21_Witness ==
    /\ Bundled
    /\ result.ok
    /\ \/ /\ RootText = "node.json"
          /\ Holder(result.val) = NodeSchema
          /\ RefsIn(result.val) = {"#"}
       \/ /\ RootText = "wrapper.json"
          /\ get(get(Holder(result.val), "properties"), "data") = Plain

(* ---------------------------------------------------------------------- *)
(* C22: circular references                                                *)
(* ---------------------------------------------------------------------- *)
HasLoop(doc) == has(doc, "$defs") /\ has(get(doc, "$defs"), "loop")

\* The root document leads back into a (document, pointer) pair that is
\* still being resolved: a definition that is a reference to itself,
\* a.json -> b.json -> a.json, or a pointer to the mapping the reference
\* sits in, with nothing failing before the re-entry.
\* The definitions of the root, bundled first, already fail to load.
DefsUnreachable ==
    /\ has(schema, "$defs")
    /\ RefsIn(get(schema, "$defs")) = {"common.json#/$defs/address"}
    /\ "common.json" \in cmd.unreachable
Reenters ==
    \/ HasLoop(schema)
    \/ /\ ~DefsUnreachable
       /\ \/ RootText = "a.json" /\ "b.json" \notin cmd.unreachable
          \/ RootText = "#/properties"
Circular == ~result.ok /\ result.msg = "CircularReference"

\* C22: a reference graph that re-enters a (document, pointer) pair under
\* resolution fails with CircularReference instead of looping; "#" is not
\* traversed and never reported as circular.
C22_CircularReference ==
    Bundled =>
        /\ Reenters => Circular
        /\ Circular => Reenters
        /\ RootText \in {"#", "node.json", "node.json#"} =>
               /\ ~HasLoop(schema) /\ ~DefsUnreachable => result.ok
               /\ result.ok => "#" \in RefsIn(result.val)

\* a.json -> b.json -> a.json failed as circular.
C22_Witness ==
    /\ Bundled
    /\ RootText = "a.json"
    /\ ~HasLoop(schema)
    /\ "b.json" \notin cmd.unreachable
    /\ Circular

(* ---------------------------------------------------------------------- *)
(* C23: operation entry, shorthand transition, neither                     *)
(* ---------------------------------------------------------------------- *)
Without(m, key) == [m EXCEPT !.kv = SelectSeq(@, LAMBDA e : e.k # key)]
IncludeNone == VisOk("include", NoTransition)

\* The annotation is a mapping without an entry for the operation.
NoEntry(p) == is_object(AnnotationOf(p)) /\ EntryOf(p) = None
\* The `transition` of such a mapping, None when it has none.
ShorthandOf(p) ==
    IF NoEntry(p) /\ has(AnnotationOf(p), "transition")
    THEN get(AnnotationOf(p), "transition") ELSE None
TransitionOf(d) ==
    SomeTransition(get(d, "from").s, get(d, "to").s, get(d, "description").s)

\* C23: for a mapping annotation get_visibility uses the entry of the
\* requested operation when there is one, whatever a sibling `transition`
\* says; without such an entry it uses the shorthand `transition` descriptor,
\* the same for every operation without an entry of its own; with neither,
\* and without the annotation key, it returns (Include, None).
C23_EntryThenShorthand ==
    Looked =>
        /\ AnnotationOf(prop) = None => vis = IncludeNone
        /\ EntryOf(prop) # None =>
               /\ vis = get_visibility(
                            [prop EXCEPT !.kv =
                                [i \in 1..Len(@) |->
                                    IF @[i].k = annotation_key(options.direction)
                                    THEN KV(@[i].k, Without(@[i].v, "transition"))
                                    ELSE @[i]]],
                            options.direction, options.operation, TestPath)
               /\ is_str(EntryOf(prop)) /\ EntryOf(prop).s \in Visibilities =>
                      vis = VisOk(EntryOf(prop).s, NoTransition)
        /\ is_object(ShorthandOf(prop)) =>
               /\ ValidDescriptor(ShorthandOf(prop)) =>
                      vis = VisOk(get(ShorthandOf(prop), "from").s,
                                  TransitionOf(ShorthandOf(prop)))
               /\ \A op \in {"create", "update"} :
                      ~contains_key(AnnotationOf(prop), op) =>
                          get_visibility(prop, options.direction, op, TestPath) = vis
        /\ NoEntry(prop) /\ ShorthandOf(prop) = None => vis = IncludeNone

\* An entry `create: omit` beside a `transition` was used, and a shorthand
\* transition was used for an operation without an entry.
C23_Witness ==
    /\ Looked
    /\ \/ /\ EntryOf(prop) = Str("omit")
          /\ has(AnnotationOf(prop), "transition")
          /\ vis = VisOk("omit", NoTransition)
       \/ /\ is_object(ShorthandOf(prop))
          /\ vis.ok
          /\ vis.transition.some

(* ---------------------------------------------------------------------- *)
(* C24: a `transition` that is not a valid descriptor                      *)
(* ---------------------------------------------------------------------- *)
\* C24: without an entry for the operation, the value of `transition` is
\* parsed as a transition descriptor whatever its JSON type: when it is not
\* a valid descriptor get_visibility fails with InvalidSchemaTransition.
C24_TransitionAlwaysParsed ==
    Looked /\ ShorthandOf(prop) # None =>
        \/ is_object(ShorthandOf(prop)) /\ ValidDescriptor(ShorthandOf(prop))
        \/ ~vis.ok /\ vis.err.kind = "InvalidSchemaTransition"

(* ---------------------------------------------------------------------- *)
(* C25: the order of keys, properties and branches                         *)
(* ---------------------------------------------------------------------- *)
Restrict(sq, S) == SelectSeq(sq, LAMBDA x : x \in S)
KeySet(m) == {m.kv[j].k : j \in 1..Len(m.kv)}

\* The keys the output node shares with the input node, `skip` apart, are
\* in the order of the input.
InputOrder(pair, skip) ==
    Restrict(Keys(pair.o), KeySet(pair.i) \ skip)
        = Restrict(Keys(pair.i), KeySet(pair.o) \ skip)

\* The kept properties are in the order of the input's properties.
PropertiesOrder(pair) ==
    has_props(pair.i) /\ has(pair.o, "properties") =>
        Keys(get(pair.o, "properties"))
            = Restrict(Keys(get(pair.i, "properties")),
                       KeySet(get(pair.o, "properties")))

\* Output branch number j is input branch number j, resolved.
BranchOrder(pair) ==
    \A c \in Compositions :
        has(pair.i, c) /\ is_array(get(pair.i, c)) =>
            /\ Len(get(pair.o, c).kv) = Len(get(pair.i, c).kv)
            /\ \A j \in 1..Len(get(pair.i, c).kv) :
                   get(pair.o, c).kv[j].v =
                       BranchAlone(
                           IF c = "allOf"
                           THEN AsIfAnnotated(get(pair.i, c).kv[j].v,
                                              Items(get(pair.i, c)),
                                              annotation_key(options.direction))
                           ELSE get(pair.i, c).kv[j].v,
                           pair.path \o <<c, ToString(j - 1)>>)

\* `required` comes after every key taken from the input.
RequiredLast(pair) ==
    has(pair.o, "required") =>
        \A k \in (KeySet(pair.i) \cap KeySet(pair.o)) \ {"required"} :
            KeyIndex(pair.o, k) < KeyIndex(pair.o, "required")

\* Every pair of a sequence satisfies the order properties, `skip` apart.
AllInputOrder(ps, skip) ==
    \A n \in 1..Len(ps) :
        /\ InputOrder(ps[n], skip)
        /\ PropertiesOrder(ps[n])
        /\ BranchOrder(ps[n])
AllRequiredLast(ps) == \A n \in 1..Len(ps) : RequiredLast(ps[n])

\* C25 as stated: in every output object the keys are in the relative order
\* of the input object, `required` included, and properties and composition
\* branches keep their input order.
C25_KeyOrderPreserved ==
    ResolvedOk => AllInputOrder(NodePairs, {})

\* C25: in every output object the keys taken from the input other than
\* `required` are in the relative order of the input, `required` comes after
\* all of them, the kept properties are in the order of the input's
\* properties and output branch j of allOf / anyOf / oneOf is input branch j.
C25_KeyOrderRequiredLast ==
    ResolvedOk =>
        /\ AllInputOrder(NodePairs, {"required"})
        /\ AllRequiredLast(NodePairs)

\* An object with `required` before `properties` was resolved, and the
\* output has `properties` before `required`.
C25_Witness ==
    /\ ResolvedOk
    /\ has(schema, "required") /\ has(schema, "properties")
    /\ KeyIndex(schema, "required") < KeyIndex(schema, "properties")
    /\ has(result.val, "required") /\ has(result.val, "properties")
    /\ KeyIndex(result.val, "properties") < KeyIndex(result.val, "required")
    /\ Len(Keys(get(result.val, "properties"))) = 2

(* ---------------------------------------------------------------------- *)
(* C26: the depth of the recursion                                         *)
(* ---------------------------------------------------------------------- *)
\* No node below the bound was rewritten: each is returned as it was.
NoneRewrittenBelow(ps, bound) ==
    \A n \in 1..Len(ps) : Len(ps[n].path) > bound => ps[n].o = ps[n].i

\* C26: resolve never recurses more than MaxDepth levels into a schema: a
\* schema nested deeper is stopped by the guard, so resolve does not return
\* it with a node below the bound rewritten.
C26_RecursionBounded ==
    ResolvedOk => NoneRewrittenBelow(NodePairs, MaxDepth)

(* ---------------------------------------------------------------------- *)
(* C27: the stages of resolve and compose                                  *)
(* ---------------------------------------------------------------------- *)
\* The stages, each on what the stage before it produced.
Passed == Loaded(Null)
FlagStage(c, input) ==
    IF c.command = "run_resolve"
    THEN IF \/ detect_direction(input) # "None" /\ c.bundle
            \/ detect_direction(input) = "None"
                   /\ (c.schema_local_base \/ c.schema_remote_base)
         THEN Failed(2, "flag") ELSE Passed
    ELSE IF detect_direction(input) = "None"
         THEN Failed(2, "not a payload") ELSE Passed
SchemaStage(c, input) ==
    IF detect_direction(input) # "None" THEN compose_from_payload(input, c)
    ELSE IF c.bundle THEN bundle_refs(input, c)
    ELSE Loaded(input)
DirectionOf(c, input) ==
    IF c.request THEN "Request"
    ELSE IF c.response THEN "Response"
    ELSE detect_direction(input)
DirectionStage(c, input) ==
    IF c.command = "run_resolve" /\ DirectionOf(c, input) = "None"
    THEN Failed(2, "direction") ELSE Passed
ResolveStage(c, input, schema_value) ==
    IF c.command = "run_resolve"
    THEN LET resolved == resolve(schema_value,
                 [direction |-> DirectionOf(c, input), operation |-> c.op,
                  strict |-> c.strict])
         IN  IF resolved.ok THEN Loaded(resolved.val)
             ELSE Failed(exit_code(resolved.err), resolved.err.kind)
    ELSE Loaded(schema_value)
WriteStage(c) == IF c.output /\ c.write_fails THEN Failed(3, "write") ELSE Passed

\* What the command left behind.
NothingWritten(o) == o.stdout = <<>> /\ o.file = <<>>
Written(c, o, value) ==
    IF c.output THEN o.stdout = <<>> /\ o.file = <<value>>
    ELSE o.stdout = <<JsonLine(value)>> /\ o.file = <<>>
Stopped(o, code) == o.exit = code /\ NothingWritten(o) /\ Len(o.stderr) = 1

\* The outcome the stages give, the first failure ending the command.
AfterSchema(c, o, input, schema_value) ==
    IF ~DirectionStage(c, input).ok
    THEN Stopped(o, DirectionStage(c, input).code) /\ o.direction = "None"
    ELSE LET resolved == ResolveStage(c, input, schema_value)
         IN  IF ~resolved.ok THEN Stopped(o, resolved.code)
             ELSE IF ~WriteStage(c).ok THEN Stopped(o, WriteStage(c).code)
             ELSE /\ o.exit = 0
                  /\ o.stderr = <<>>
                  /\ Written(c, o, resolved.val)
InStageOrder(c, o) ==
    IF ~c.source.ok THEN Stopped(o, c.source.code) /\ o.direction = "None"
    ELSE IF ~FlagStage(c, c.source.val).ok
    THEN Stopped(o, FlagStage(c, c.source.val).code) /\ o.direction = "None"
    ELSE LET composedOrBundled == SchemaStage(c, c.source.val)
         IN  IF ~composedOrBundled.ok
             THEN Stopped(o, composedOrBundled.code) /\ o.direction = "None"
             ELSE AfterSchema(c, o, c.source.val, composedOrBundled.val)

\* C27: resolve and compose run load, then the detection of the input type
\* and the flag check, then the composition or the optional bundling, then
\* the determination of the direction, then resolve, then the write; the
\* first stage that fails ends the command with its exit code and one
\* message, no later stage leaves a trace, and the schema is written to
\* stdout or to the output file only when every earlier stage succeeded.
C27_StagesInOrder ==
    Ran("run_resolve") \/ Ran("run_compose") => InStageOrder(cmd, outcome)

\* A schema file with --bundle and no direction flag whose bundling fails:
\* the bundler's exit code, not the direction's.
C27_Witness ==
    /\ Ran("run_resolve")
    /\ cmd.source.ok
    /\ cmd.bundle
    /\ ~cmd.request /\ ~cmd.response
    /\ FlagStage(cmd, cmd.source.val).ok
    /\ ~SchemaStage(cmd, cmd.source.val).ok
    /\ outcome.exit = SchemaStage(cmd, cmd.source.val).code
    /\ outcome.exit # 2
    /\ NothingWritten(outcome)

(* ---------------------------------------------------------------------- *)
(* C28: annotations are the only input to resolution decisions             *)
(* ---------------------------------------------------------------------- *)
\* Equality of JSON values: objects by their entries whatever the order of
\* the keys, arrays item by item.
RECURSIVE SameJson(_, _)
SameJson(a, b) ==
    IF is_object(a) /\ is_object(b)
    THEN /\ KeySet(a) = KeySet(b)
         /\ \A k \in KeySet(a) : SameJson(get(a, k), get(b, k))
    ELSE IF is_array(a) /\ is_array(b)
    THEN /\ Len(a.kv) = Len(b.kv)
         /\ \A j \in 1..Len(a.kv) : SameJson(a.kv[j].v, b.kv[j].v)
    ELSE a = b

\* The non-strict resolve of the schema and of the stripped schema.
NonStrict == with_strict(options, FALSE)
Bare == strip_annotations(schema)
OfBare == resolve(Bare, NonStrict)
OfSchema == resolve(schema, NonStrict)

\* r (resolved from i) and t (resolved from the stripped i) differ only at
\* properties whose visibility in i is not Include: such a property may be
\* absent or changed, its name may differ in `required`; everything else is
\* the same in both.
VisibilityDriven(i, name) ==
    LET looked == get_visibility(get(get(i, "properties"), name),
                                 options.direction, options.operation, <<>>)
    IN  looked.vis # "include" \/ looked.transition.some
RECURSIVE OnlyVisibilityEdits(_, _, _, _)
OnlyVisibilityEdits(r, t, i, key) ==
    IF is_object(r) /\ is_object(t) /\ is_object(i)
    THEN \A k \in KeySet(r) \cup KeySet(t) :
             IF k = "required"
             THEN \A j \in 1..(Len(required_names(r)) + Len(required_names(t))) :
                      LET name == (required_names(r) \o required_names(t))[j]
                      IN  Count(required_names(r), name)
                              # Count(required_names(t), name)
                          => /\ name \in Declared(i)
                             /\ VisibilityOf(i, name) # "include"
             ELSE IF k = "properties" /\ has_props(i)
             THEN \A name \in OutProps(r) \cup OutProps(t) :
                      \/ /\ name \in Declared(i)
                         /\ VisibilityDriven(i, name)
                      \/ /\ name \in OutProps(r) \cap OutProps(t) \cap Declared(i)
                         /\ OnlyVisibilityEdits(get(get(r, k), name),
                                                get(get(t, k), name),
                                                get(get(i, k), name), key)
             ELSE /\ has(r, k) /\ has(t, k) /\ has(i, k)
                  /\ IF k = "allOf" /\ is_array(get(i, k)) /\ is_array(get(r, k))
                        /\ is_array(get(t, k))
                     THEN /\ Len(get(r, k).kv) = Len(get(i, k).kv)
                          /\ Len(get(t, k).kv) = Len(get(i, k).kv)
                          /\ \A j \in 1..Len(get(i, k).kv) :
                                 OnlyVisibilityEdits(
                                     get(r, k).kv[j].v, get(t, k).kv[j].v,
                                     AsIfAnnotated(get(i, k).kv[j].v,
                                                   Items(get(i, k)), key), key)
                     ELSE OnlyVisibilityEdits(get(r, k), get(t, k), get(i, k), key)
    ELSE IF is_array(r) /\ is_array(t) /\ is_array(i)
    THEN /\ Len(r.kv) = Len(i.kv)
         /\ Len(t.kv) = Len(i.kv)
         /\ \A j \in 1..Len(i.kv) :
                OnlyVisibilityEdits(r.kv[j].v, t.kv[j].v, i.kv[j].v, key)
    ELSE r = t

\* Every `required` keyword of v is an array of strings.
RECURSIVE RequiredWellFormed(_)
RequiredWellFormed(v) ==
    \A j \in 1..Len(v.kv) :
        /\ is_object(v) /\ v.kv[j].k = "required" =>
               /\ is_array(v.kv[j].v)
               /\ \A a \in 1..Len(v.kv[j].v.kv) : is_str(v.kv[j].v.kv[a].v)
        /\ RequiredWellFormed(v.kv[j].v)
\* Some property or definition of v is named ucp_request or ucp_response.
RECURSIVE NamedAsAnnotation(_)
NamedAsAnnotation(v) ==
    \E j \in 1..Len(v.kv) :
        LET k == v.kv[j].k
            x == v.kv[j].v
        IN  \/ /\ is_object(v) /\ k \in {"properties", "$defs", "definitions"}
               /\ is_object(x)
               /\ \E n \in 1..Len(x.kv) : x.kv[n].k \in UCP_ANNOTATIONS
            \/ NamedAsAnnotation(x)

\* C28: for every schema on which resolve succeeds, the non-strict resolve of
\* the stripped schema succeeds and returns the stripped schema, and it differs
\* from the non-strict resolve of the schema only at properties whose
\* annotation decides something (a visibility other than Include, or a
\* transition).
C28_StripThenResolve ==
    ResolvedOk =>
        /\ OfBare.ok
        /\ SameJson(OfBare.val, Bare)
        /\ OnlyVisibilityEdits(OfSchema.val, OfBare.val, schema,
                               annotation_key(options.direction))

\* The same, on the schemas whose `required` keywords are arrays of strings
\* and that name no property or definition ucp_request or ucp_response.
C28_OnKeywordAnnotations ==
    ResolvedOk /\ RequiredWellFormed(schema) /\ ~NamedAsAnnotation(schema) =>
        /\ OfBare.ok
        /\ SameJson(OfBare.val, Bare)
        /\ OnlyVisibilityEdits(OfSchema.val, OfBare.val, schema,
                               annotation_key(options.direction))

(* ---------------------------------------------------------------------- *)
(* C29: resolve on its own output                                          *)
(* ---------------------------------------------------------------------- *)
\* resolve applied, with the same options, to what resolve returned.
Again == resolve(result.val, options)

\* C29: when resolve succeeds, resolve of its output with the same options
\* succeeds and returns a value equal to that output, with strict off and
\* with strict on.
C29_Idempotent ==
    ResolvedOk => Again.ok /\ SameJson(Again.val, result.val)

\* The same with the order of the keys taken into account.
C29_IdempotentInOrder ==
    ResolvedOk => Again.ok /\ Again.val = result.val

\* A strict resolve that removed a property and closed the object.
C29_Witness ==
    /\ ResolvedOk
    /\ options.strict
    /\ has_props(schema)
    /\ \E name \in Declared(schema) :
           VisibilityOf(schema, name) = "omit" /\ name \notin OutProps(result.val)
    /\ has(result.val, "additionalProperties")
    /\ ~has(schema, "additionalProperties")
    /\ SameJson(Again.val, result.val)

(* ---------------------------------------------------------------------- *)
(* C30: which error an allOf reports                                       *)
(* ---------------------------------------------------------------------- *)
IsPrefix(p, q) == Len(p) <= Len(q) /\ SubSeq(q, 1, Len(p)) = p

\* Branch b declares x as an object without the annotation, lists it in
\* `required`, and some branch annotates x: the injection checks x.
Checked(branches, b, x, key) ==
    /\ Lists(branches, b, x)
    /\ has_props(branches[b])
    /\ has(get(branches[b], "properties"), x)
    /\ is_object(get(get(branches[b], "properties"), x))
    /\ ~contains_key(get(get(branches[b], "properties"), x), key)
    /\ Annotating(branches, key, x) # {}

\* The injection into branch b fails on x: the collected annotation is
\* malformed, or it weakens the required x.
InjectionFails(branches, b, x, key) ==
    /\ Checked(branches, b, x, key)
    /\ LET v == get_visibility_from_annotation(
                    LastAnnotation(branches, key, x), options.operation, <<>>)
       IN  ~v.ok \/ v.vis \in {"omit", "optional"}

\* The error of the injection on x, at the path of branch b.
InjectionError(branches, b, x, key, path) ==
    LET v == get_visibility_from_annotation(
                 LastAnnotation(branches, key, x), options.operation,
                 path \o <<"properties", x>>)
    IN  IF ~v.ok THEN v.err
        ELSE MonotonicityViolation(path \o <<"properties", x>>, x, v.vis)

\* The resolution of branch b as annotated by the propagation.
OwnResolution(branches, b, key, path) ==
    resolve_value(AsIfAnnotated(branches[b], branches, key), options, path)

BranchFails(branches, b, key, path) ==
    \/ \E x \in Declared(branches[b]) : InjectionFails(branches, b, x, key)
    \/ ~OwnResolution(branches, b, key, path).ok

\* The error e, raised within the allOf at `path`, is the one the order of
\* the checks gives.
InPrecedence(e, branches, key, path) ==
    IF \E x \in BranchNames(branches) : Conflicting(branches, x)
    THEN \E x \in BranchNames(branches) :
             /\ Conflicting(branches, x)
             /\ e = TypeConflict(path \o <<"properties", x>>,
                                 BaseType(branches, x), ExtType(branches, x))
    ELSE \E b \in 1..Len(branches) :
             LET bpath == Append(path, ToString(b - 1))
             IN  /\ BranchFails(branches, b, key, bpath)
                 /\ \A a \in 1..(b - 1) :
                        ~BranchFails(branches, a, key,
                                     Append(path, ToString(a - 1)))
                 /\ IF \E x \in Declared(branches[b]) :
                           InjectionFails(branches, b, x, key)
                    THEN \E x \in Declared(branches[b]) :
                             /\ InjectionFails(branches, b, x, key)
                             /\ e = InjectionError(branches, b, x, key, bpath)
                    ELSE e = OwnResolution(branches, b, key, bpath).err

AllInPrecedence(ss, e, key) ==
    \A n \in 1..Len(ss) :
        IsPrefix(ss[n].path, e.path) =>
            InPrecedence(e, ss[n].branches, key, ss[n].path)

\* C30: an error raised within an allOf is a TypeConflict whenever two
\* branches conflict on a type; otherwise it is the error of the lowest
\* failing branch, and within that branch the error of the injection (the
\* monotonicity check) when the injection fails, that of the branch's own
\* resolution otherwise; so an annotation error in branch i comes before a
\* MonotonicityViolation in a branch after i.
C30_ErrorPrecedence ==
    Resolved /\ ~result.ok =>
        AllInPrecedence(Sites, result.err, annotation_key(options.direction))

\* An annotation error from branch i while a later branch is weakened.
C30_Witness ==
    /\ Resolved
    /\ ~result.ok
    /\ result.err.kind = "UnknownVisibility"
    /\ LET ss == Sites
           key == annotation_key(options.direction)
       IN  \E n \in 1..Len(ss) : \E b, j \in 1..Len(ss[n].branches) :
               /\ b < j
               /\ IsPrefix(Append(ss[n].path, ToString(b - 1)), result.err.path)
               /\ \E x \in Declared(ss[n].branches[j]) :
                      Weakened(ss[n].branches, j, x, key) # ""

====
